---- MODULE Spec2Model ----
(***************************************************************************)
(* Relayer submission protocol of src/server/routes.ts (the second,        *)
(* payment-verifying version of the file, lines 641-1333): the rate        *)
(* limiter, the payment verifier and the POST /api/relayer/submit handler, *)
(* cut at its await points, against a chain client and a confession store. *)
(*                                                                         *)
(* Amounts are wei and all arithmetic is the handler's BigInt arithmetic.  *)
(* TLC integers are 32 bit wide, so the two wei literals of the handler    *)
(* (330000000000000 and 100000000000000) are carried divided by 10^12;     *)
(* every other amount is drawn from small naturals.                        *)
(***************************************************************************)
EXTENDS Integers, Sequences, FiniteSets, TLC

\* ------------------------------------------------------------------ bounds
NumReq == 2          \* request slots that can be in flight at once
MaxHash == 3         \* transaction hashes the chain can hold
MaxHours == 1        \* the clock shows whole hours up to this ...
MaxMs == 2           \* ... plus this many milliseconds
MaxRows == 2         \* rows the direct endpoint may add to the confessions table
NumVoteOps == 3      \* vote operations the server receives
MaxVotes == 3        \* rows ever inserted into the votes table
NumVerify == 2       \* verify requests the server receives
MaxNonce == 2        \* nonces ever issued
MaxTokens == 2       \* session tokens ever issued

\* ------------------------------------------------------- program constants
MAX_SUBMISSIONS_PER_HOUR == 10
HOUR_MS == 3600000           \* 60 * 60 * 1000
NONCE_TTL_MS == 300000       \* 5 * 60 * 1000
SESSION_TTL_MS == 3600000    \* 60 * 60 * 1000
DAY_MS == 86400000           \* the part of an ISO timestamp before the T
DEFAULT_FEE_WEI == 330       \* BigInt(330000000000000) / 10^12
GAS_BUFFER_WEI == 100        \* BigInt(100000000000000) / 10^12
MAX_TEXT_LEN == 1000
RETRY_AFTER == 3600

confessionCategories == {"Greed", "Regret", "FOMO", "Rug", "Wisdom", "Other"}

\* --------------------------------------------------------------- universes
Req == 1..NumReq
HashIds == 1..MaxHash
PayIds == {1}                          \* hash of the user's payment
IPs == {"ip1", "ip2"}
None == [none |-> TRUE]

\* An address is 20 bytes written in hex; `lower' tells whether the string
\* is all lower case (as RPC nodes return it) or EIP-55 mixed case.
Addr(n, l) == [id |-> n, lower |-> l]
NoAddr == [id |-> "null", lower |-> TRUE]
relayerAddress == Addr("relayer", FALSE)       \* account.address, checksummed
CONTRACT_ADDRESS == Addr("contract", FALSE)
AddrToLowerCase(a) == [a EXCEPT !.lower = TRUE]

\* A payment hash string: the 32 bytes it names, whether its hex digits are
\* written in upper case, and whether it matches /^0x[a-fA-F0-9]{64}$/.
TxHashStr(n, u) == [id |-> n, upper |-> u, hex |-> TRUE]
BadHashStr == [id |-> 0, upper |-> FALSE, hex |-> FALSE]
HashToLowerCase(h) == [h EXCEPT !.upper = FALSE]

FeeValues == {101}                     \* what getFeeInWei may return
Texts == {[id |-> "gm", len |-> 2]}

VARIABLES
  now,                  \* Date.now()
  submissionRateLimit,  \* Map ip -> {count, resetAt}
  usedPaymentHashes,    \* Set of lower-cased payment hash strings
  req,                  \* the in-flight invocations of the submit handler
  chain,                \* transactions known to the chain, by hash
  balance,              \* balance of the relayer wallet
  anchored,             \* content hashes stored in the contract
  confessions,          \* the confessions table
  config,               \* environment: relayer key, contract address, owner
  votes,                \* the votes table
  vreq,                 \* the in-flight vote and remove-vote operations
  adminNonces,          \* Map lower-cased wallet address -> {nonce, expiresAt}
  adminSessions,        \* Map session token -> {walletAddress, expiresAt}
  areq,                 \* the invocations of /api/admin/verify
  returned,             \* the messages /api/admin/nonce has returned, in order
  minted                \* how many session tokens randomBytes has produced

voteVars == <<votes, vreq>>
adminVars == <<adminNonces, adminSessions, areq, returned, minted>>

vars == <<now, submissionRateLimit, usedPaymentHashes, req, chain, balance,
          anchored, confessions, config, voteVars, adminVars>>

\* ------------------------------------------------------------ pure helpers

\* keccak256(toHex(confessionText)): a digest that names the text it is of.
keccak256(text) == <<"keccak256", text.id>>

\* mutant: the schema without the pattern of the payment hash
relayerSubmitSchema_AnyHash(body) ==
  /\ body.confessionText.len >= 1
  /\ body.confessionText.len <= MAX_TEXT_LEN
  /\ body.category \in confessionCategories

\* relayerSubmitSchema.parse succeeds
relayerSubmitSchema(body) ==
  /\ body.confessionText.len >= 1
  /\ body.confessionText.len <= MAX_TEXT_LEN
  /\ body.category \in confessionCategories
  /\ body.paymentTxHash.hex

\* const minPayment = (feeWei * BigInt(90)) / BigInt(100)
minPayment(feeWei) == (feeWei * 90) \div 100

\* mutant: the destination compared without lower-casing either side
WrongDestination_CaseSensitive(tx) == tx.to # relayerAddress

\* paymentTx.to?.toLowerCase() !== relayerAddress.toLowerCase()
WrongDestination(tx) ==
  IF tx.to = NoAddr THEN TRUE
  ELSE AddrToLowerCase(tx.to) # AddrToLowerCase(relayerAddress)

\* usedPaymentHashes.add(paymentTxHash.toLowerCase())
markUsed(used, h) == used \cup {HashToLowerCase(h)}

\* mutant: the insufficient-balance path keeps the mark
rollbackUsed_Skipped(used, h) == used

\* usedPaymentHashes.delete(paymentTxHash.toLowerCase()), the rollback
rollbackUsed(used, h) == used \ {HashToLowerCase(h)}

\* mutant: the receipt's status is not looked at
receiptReverted_Ignored(status) == FALSE

\* if (receipt.status === 'reverted') throw
receiptReverted(status) == status = "reverted"

\* mutant: the row and the response carry the user's payment hash
confessionTxHash_Payment(rq) == rq.body.paymentTxHash.id

\* the txHash written to the confession row and to the response
confessionTxHash(rq) == rq.txHash

\* getWalletClient() and CONTRACT_ADDRESS are both set
RelayerAvailable == config.relayerKey /\ config.contractAddress

\* ------------------------------------------------------------ rate limiter

NoRecord == [count |-> 0, resetAt |-> -1]

\* mutant: the sweep also takes the records that reset at this very instant
cleanupRateLimits_AtReset(m, t) ==
  [k \in IPs |-> IF m[k] # NoRecord /\ m[k].resetAt <= t THEN NoRecord ELSE m[k]]

\* cleanupRateLimits: the map after deleting every record with resetAt < t
cleanupRateLimits(m, t) ==
  [k \in IPs |-> IF m[k] # NoRecord /\ m[k].resetAt < t THEN NoRecord ELSE m[k]]

\* mutant: the limit compared with > instead of >=
checkRateLimit_OffByOne(m, ip, t) ==
  IF m[ip] = NoRecord \/ m[ip].resetAt < t
    THEN [ok |-> TRUE, map |-> [m EXCEPT ![ip] = [count |-> 1, resetAt |-> t + HOUR_MS]]]
  ELSE IF m[ip].count > MAX_SUBMISSIONS_PER_HOUR THEN [ok |-> FALSE, map |-> m]
  ELSE [ok |-> TRUE, map |-> [m EXCEPT ![ip].count = @ + 1]]

\* mutant: the record of a new window keeps the reset time of the request
checkRateLimit_NoHourAdded(m, ip, t) ==
  IF m[ip] = NoRecord \/ m[ip].resetAt < t
    THEN [ok |-> TRUE, map |-> [m EXCEPT ![ip] = [count |-> 1, resetAt |-> t]]]
  ELSE IF m[ip].count >= MAX_SUBMISSIONS_PER_HOUR THEN [ok |-> FALSE, map |-> m]
  ELSE [ok |-> TRUE, map |-> [m EXCEPT ![ip].count = @ + 1]]

\* mutant: a refusal is counted and opens a new window
checkRateLimit_CountsRefusals(m, ip, t) ==
  IF m[ip] = NoRecord \/ m[ip].resetAt < t
    THEN [ok |-> TRUE, map |-> [m EXCEPT ![ip] = [count |-> 1, resetAt |-> t + HOUR_MS]]]
  ELSE IF m[ip].count >= MAX_SUBMISSIONS_PER_HOUR
    THEN [ok |-> FALSE, map |-> [m EXCEPT ![ip] = [count |-> @.count, resetAt |-> t + HOUR_MS]]]
  ELSE [ok |-> TRUE, map |-> [m EXCEPT ![ip].count = @ + 1]]

\* checkRateLimit at time t: what it returns (ok) and the map it leaves
checkRateLimit(m, ip, t) ==
  IF m[ip] = NoRecord \/ m[ip].resetAt < t
    THEN [ok |-> TRUE, map |-> [m EXCEPT ![ip] = [count |-> 1, resetAt |-> t + HOUR_MS]]]
  ELSE IF m[ip].count >= MAX_SUBMISSIONS_PER_HOUR THEN [ok |-> FALSE, map |-> m]
  ELSE [ok |-> TRUE, map |-> [m EXCEPT ![ip].count = @ + 1]]

\* ------------------------------------------------------- requests, replies

NoRes == [status |-> 0, error |-> "", retryAfter |-> 0, expected |-> NoAddr,
          received |-> NoAddr, txHash |-> 0, confession |-> 0, fallback |-> FALSE,
          listing |-> <<>>]

NoBody == [confessionText |-> [id |-> "", len |-> 0], category |-> "",
           paymentTxHash |-> BadHashStr]

IdleReq == [pc |-> "idle", route |-> "", ip |-> "", body |-> NoBody, feeWei |-> 0,
            feeFallback |-> FALSE, paymentTx |-> None, txHash |-> 0, res |-> NoRes]

\* res.status(s).json({error: e}) and the handler returns
Reply(rq, s, e) == [rq EXCEPT !.pc = "done", !.res = [NoRes EXCEPT !.status = s, !.error = e]]

\* the catch block for an error that is neither a ZodError nor 'Already exists'
Reply500(rq, msg) ==
  [rq EXCEPT !.pc = "done",
             !.res = [NoRes EXCEPT !.status = 500, !.error = msg, !.fallback = TRUE]]

\* Request bodies: the payment hash in either case, and the hash the relayer's
\* first transaction gets, named as if it were a payment.
Bodies ==
  {[confessionText |-> t, category |-> "Wisdom", paymentTxHash |-> h] :
      t \in Texts, h \in {TxHashStr(1, FALSE), TxHashStr(1, TRUE), TxHashStr(2, FALSE)}}

\* Texts the schema turns away: the empty string and one character too many.
BadTexts == {[id |-> "", len |-> 0], [id |-> "long", len |-> MAX_TEXT_LEN + 1]}

GoodBody == [confessionText |-> CHOOSE t \in Texts : TRUE, category |-> "Wisdom",
             paymentTxHash |-> TxHashStr(1, FALSE)]

\* Bodies for the rate limiter: one well-formed, one rejected by the schema.
RateBodies == {GoodBody, [GoodBody EXCEPT !.category = "Bogus"]}

\* Bodies for input validation: one well-formed, the others rejected by the
\* schema for their text, their category or their payment hash.
InputBodies ==
  RateBodies \cup {[GoodBody EXCEPT !.paymentTxHash = BadHashStr]}
    \cup {[GoodBody EXCEPT !.confessionText = t] : t \in BadTexts}

\* ----------------------------------------------------- votes, admin: idle

VoteOps == 1..NumVoteOps
Verifies == 1..NumVerify
Wallets == {"owner", "mallory"}          \* lower-cased wallet addresses
Tokens == 1..MaxTokens
OwnerAddress == Addr("owner", FALSE)     \* ADMIN_WALLET_ADDRESS, checksummed

Visitors == {"v1", "v2"}
VoteTypes == {"like", "dislike"}

IdleVote == [pc |-> "idle", op |-> "", confessionId |-> 0, visitorId |-> "",
             voteType |-> "", existingVote |-> None, status |-> 0]

\* timestamps as the three formats print them
\* ${Date.now()}: the milliseconds
DateNow(t) == [format |-> "ms", date |-> 0, time |-> t]
\* new Date().toISOString(): 2026-01-01T00:00:00.000Z
toISOString(t) == [format |-> "dateTtimeZ", date |-> t \div DAY_MS, time |-> t % DAY_MS]
\* new Date().toISOString().split('T')[0]: 2026-01-01
toISODate(t) == [format |-> "date", date |-> t \div DAY_MS, time |-> 0]

\* a message to sign: the nonce and the timestamp printed in it (nonce 0: none)
Message(nonce, timestamp) == [nonce |-> nonce, timestamp |-> timestamp]
NoMessage == Message(0, DateNow(0))

\* a signature: who signed, and which message; BadSignature is not a signature
Signature(w, m) == [by |-> w, over |-> m]
NoSignature == [by |-> "null", over |-> NoMessage]
BadSignature == [by |-> "malformed", over |-> NoMessage]

IdleVerify == [pc |-> "idle", walletAddress |-> NoAddr, message |-> NoMessage,
               signature |-> NoSignature, nonce |-> 0,
               status |-> 0, error |-> "", sessionToken |-> 0]

\* no vote has been cast and no vote operation is running
InitVotes == votes = <<>> /\ vreq = [o \in VoteOps |-> IdleVote]

\* new Map() twice, and no verify request is running
InitAdmin ==
  /\ adminNonces = [w \in Wallets |-> None]
  /\ adminSessions = [t \in Tokens |-> None]
  /\ areq = [a \in Verifies |-> IdleVerify]
  /\ returned = <<>>
  /\ minted = 0

\* ------------------------------------------------------------------- Init

Payments == {[from |-> "user", to |-> a, value |-> v, data |-> <<>>, status |-> "pending",
                 revertReason |-> ""] :
               a \in {Addr("relayer", TRUE), Addr("other", TRUE), NoAddr},
               v \in {90, DEFAULT_FEE_WEI}}

Init ==
  /\ now = 0
  /\ submissionRateLimit = [k \in IPs |-> NoRecord]
  /\ usedPaymentHashes = {}
  /\ req = [r \in Req |-> IdleReq]
  /\ \E p \in Payments : chain = [h \in HashIds |-> IF h = 1 THEN p ELSE None]
  /\ balance \in {250, 500}
  /\ anchored = {}
  /\ confessions = <<>>
  /\ config \in [relayerKey : BOOLEAN, contractAddress : {TRUE}, ownerAddress : {OwnerAddress},
                deployment : {"express"}]
  /\ InitVotes /\ InitAdmin

\* ------------------------------------------------- POST /api/relayer/submit

\* A request arrives: the handler runs to its first await (readContract).
Begin(r, ip, body) ==
  /\ req[r].pc = "idle"
  /\ LET swept == cleanupRateLimits(submissionRateLimit, now)
         checked == checkRateLimit(swept, ip, now)
         allowed == checked.ok
         rq == [req[r] EXCEPT !.route = "POST /api/relayer/submit", !.ip = ip, !.body = body]
     IN /\ submissionRateLimit' = checked.map
        /\ req' = [req EXCEPT ![r] =
             IF ~allowed
               THEN [rq EXCEPT !.pc = "done",
                               !.res = [NoRes EXCEPT !.status = 429,
                                          !.error = "Rate limit exceeded",
                                          !.retryAfter = RETRY_AFTER]]
             ELSE IF ~relayerSubmitSchema(body) THEN Reply(rq, 400, "Invalid data")
             ELSE IF ~RelayerAvailable THEN Reply(rq, 503, "Relayer not available")
             ELSE IF HashToLowerCase(body.paymentTxHash) \in usedPaymentHashes
               THEN Reply(rq, 400, "This payment has already been used")
             ELSE [rq EXCEPT !.pc = "readContract"]]
  /\ UNCHANGED <<now, usedPaymentHashes, chain, balance, anchored, confessions, config, voteVars, adminVars>>

\* mutant: feeWei has no initial value to fall back on
feeWeiAfterRead_NoDefault(ok, result) == IF ok THEN result ELSE 0

\* let feeWei = BigInt(330000000000000); try { feeWei = result } catch {}
feeWeiAfterRead(ok, result) == IF ok THEN result ELSE DEFAULT_FEE_WEI

\* readContract(getFeeInWei) returns `result', or fails and the default stays;
\* feeFallback records that the catch branch ran.
ReadContract(r, ok, result) ==
  /\ req[r].pc = "readContract"
  /\ req' = [req EXCEPT ![r].feeWei = feeWeiAfterRead(ok, result),
                        ![r].feeFallback = ~ok,
                        ![r].pc = "getTransaction"]
  /\ UNCHANGED <<now, submissionRateLimit, usedPaymentHashes, chain, balance,
                 anchored, confessions, config, voteVars, adminVars>>

\* getTransaction returns the payment, or throws (unknown hash, RPC failure).
GetTransaction(r, rpcOk) ==
  /\ req[r].pc = "getTransaction"
  /\ LET tx == chain[req[r].body.paymentTxHash.id]
     IN req' = [req EXCEPT ![r] =
          IF ~rpcOk \/ tx = None
            THEN Reply(@, 400, "Payment transaction not found")
          ELSE [@ EXCEPT !.paymentTx = [from |-> tx.from, to |-> tx.to, value |-> tx.value],
                         !.pc = "getTransactionReceipt"]]
  /\ UNCHANGED <<now, submissionRateLimit, usedPaymentHashes, chain, balance,
                 anchored, confessions, config, voteVars, adminVars>>

\* mutant: the hash is marked before the payment is verified
usedAfterVerification_MarkFirst(used, h, rejected) == markUsed(used, h)

\* every rejection returns before usedPaymentHashes.add is reached
usedAfterVerification(used, h, rejected) == IF rejected THEN used ELSE markUsed(used, h)

\* getTransactionReceipt returns or throws; then the checks of the payment run
\* and the hash is marked used, up to the await of getBalance. (The test of
\* getRelayerAddress() for null cannot fail here: the wallet client exists.)
GetTransactionReceipt(r, rpcOk) ==
  /\ req[r].pc = "getTransactionReceipt"
  /\ LET rq == req[r]
         h == rq.body.paymentTxHash
         tx == chain[h.id]
         thrown == ~rpcOk \/ tx = None \/ tx.status = "pending"
         rejected ==
           IF thrown THEN Reply(rq, 400, "Payment transaction not found")
           ELSE IF tx.status # "success"
             THEN Reply(rq, 400, "Payment transaction failed or not confirmed")
           ELSE IF WrongDestination(rq.paymentTx)
             THEN [rq EXCEPT !.pc = "done",
                             !.res = [NoRes EXCEPT !.status = 400,
                                        !.error = "Payment must be sent to the relayer wallet",
                                        !.expected = relayerAddress,
                                        !.received = rq.paymentTx.to]]
           ELSE IF rq.paymentTx.value < minPayment(rq.feeWei)
             THEN Reply(rq, 400, "Insufficient payment amount")
           ELSE None
     IN /\ req' = [req EXCEPT ![r] =
             IF rejected # None THEN rejected ELSE [rq EXCEPT !.pc = "getBalance"]]
        /\ usedPaymentHashes' = usedAfterVerification(usedPaymentHashes, h, rejected # None)
  /\ UNCHANGED <<now, submissionRateLimit, chain, balance, anchored, confessions, config, voteVars, adminVars>>

\* getBalance returns (then the funding check) or throws into the catch block.
GetBalance(r, rpcOk) ==
  /\ req[r].pc = "getBalance"
  /\ LET rq == req[r]
         h == rq.body.paymentTxHash
     IN IF ~rpcOk
          THEN /\ req' = [req EXCEPT ![r] = Reply500(rq, "getBalance failed")]
               /\ UNCHANGED usedPaymentHashes
        ELSE IF balance < rq.feeWei + GAS_BUFFER_WEI
          THEN /\ usedPaymentHashes' = rollbackUsed(usedPaymentHashes, h)
               /\ req' = [req EXCEPT ![r] =
                            Reply(rq, 503, "Relayer wallet needs more funding")]
        ELSE /\ req' = [req EXCEPT ![r].pc = "sendTransaction"]
             /\ UNCHANGED usedPaymentHashes
  /\ UNCHANGED <<now, submissionRateLimit, chain, balance, anchored, confessions, config, voteVars, adminVars>>

FreeHashes == {h \in HashIds : chain[h] = None}
NextHash == CHOOSE h \in FreeHashes : \A g \in FreeHashes : h <= g

\* mutant: the payer's address is hashed together with the text
callData_WithPayer(rq) == <<"keccak256", rq.body.confessionText.id, rq.paymentTx.from>>

\* encodeFunctionData(storeConfessionHash, [keccak256(toHex(confessionText))])
callData(rq) == keccak256(rq.body.confessionText)

\* walletClient.sendTransaction: the transaction is broadcast and its hash
\* returned ("sent"), or the call throws before anything is broadcast: the
\* gas estimate hits the contract's 'Already exists' guard, or another error.
SendTransaction(r, out) ==
  /\ req[r].pc = "sendTransaction"
  /\ LET rq == req[r]
         data == callData(rq)
     IN CASE out = "sent" ->
               /\ data \notin anchored
               /\ FreeHashes # {}
               /\ chain' = [chain EXCEPT ![NextHash] =
                    [from |-> "relayer", to |-> CONTRACT_ADDRESS, value |-> rq.feeWei,
                     data |-> data, status |-> "pending",
                 revertReason |-> ""]]
               /\ req' = [req EXCEPT ![r].txHash = NextHash,
                                     ![r].pc = "waitForTransactionReceipt"]
          [] out = "exists" ->
               /\ data \in anchored
               /\ req' = [req EXCEPT ![r] =
                    Reply(rq, 409, "This confession has already been anchored")]
               /\ UNCHANGED chain
          [] OTHER ->
               /\ req' = [req EXCEPT ![r] = Reply500(rq, "sendTransaction failed")]
               /\ UNCHANGED chain
  /\ UNCHANGED <<now, submissionRateLimit, usedPaymentHashes, balance, anchored,
                 confessions, config, voteVars, adminVars>>

\* waitForTransactionReceipt returns the receipt of the mined transaction.
WaitForTransactionReceipt(r) ==
  /\ req[r].pc = "waitForTransactionReceipt"
  /\ chain[req[r].txHash].status # "pending"
  /\ req' = [req EXCEPT ![r] =
       IF receiptReverted(chain[@.txHash].status)
         THEN Reply500(@, "Transaction reverted")
       ELSE [@ EXCEPT !.pc = "createConfession"]]
  /\ UNCHANGED <<now, submissionRateLimit, usedPaymentHashes, chain, balance,
                 anchored, confessions, config, voteVars, adminVars>>

\* mutant: the wait has no timeout
confirmationTimedOut_Never(tx) == FALSE

\* timeout: 60000 elapses with the transaction still not mined
confirmationTimedOut(tx) == tx.status = "pending"

\* waitForTransactionReceipt gives up after its 60 s timeout and throws.
WaitTimeout(r) ==
  /\ req[r].pc = "waitForTransactionReceipt"
  /\ confirmationTimedOut(chain[req[r].txHash])
  /\ req' = [req EXCEPT ![r] = Reply500(@, "Timed out while waiting for transaction")]
  /\ UNCHANGED <<now, submissionRateLimit, usedPaymentHashes, chain, balance,
                 anchored, confessions, config, voteVars, adminVars>>

\* author_id of a row inserted without an author: NULL
NoAuthor == "null"

\* storage.createConfession inserts the row and the handler answers, or the
\* insert throws into the catch block.
CreateConfession(r, dbOk) ==
  /\ req[r].pc = "createConfession"
  /\ LET rq == req[r]
         id == Len(confessions) + 1
         row == [id |-> id, originalText |-> rq.body.confessionText,
                 displayText |-> rq.body.confessionText, category |-> rq.body.category,
                 sentimentScore |-> 50, isAnchored |-> TRUE, txHash |-> confessionTxHash(rq),
                 isHidden |-> FALSE, likes |-> 0, dislikes |-> 0,
                 timestamp |-> now, authorId |-> NoAuthor]
     IN IF dbOk
          THEN /\ confessions' = Append(confessions, row)
               /\ req' = [req EXCEPT ![r].pc = "done",
                            ![r].res = [NoRes EXCEPT !.status = 200, !.txHash = confessionTxHash(rq),
                                          !.confession = id]]
          ELSE /\ req' = [req EXCEPT ![r] = Reply500(rq, "createConfession failed")]
               /\ UNCHANGED confessions
  /\ UNCHANGED <<now, submissionRateLimit, usedPaymentHashes, chain, balance,
                 anchored, config, voteVars, adminVars>>

\* The response has been sent; the slot can carry the next request.
Recycle(r) ==
  /\ req[r].pc = "done"
  /\ req' = [req EXCEPT ![r] = IdleReq]
  /\ UNCHANGED <<now, submissionRateLimit, usedPaymentHashes, chain, balance,
                 anchored, confessions, config, voteVars, adminVars>>

\* ------------------------------------------- direct writes to the table

\* tx_hash of a row that has none: NULL
NoTxHash == 0

\* a request to one of the direct endpoints, before it is answered
DirectReq(route) == [IdleReq EXCEPT !.route = route]

\* routes.ts, POST /api/confessions: always refused.
PostConfessions(r) ==
  /\ req[r].pc = "idle"
  /\ req' = [req EXCEPT ![r] =
       Reply(DirectReq("POST /api/confessions"), 403, "Direct confession creation is disabled")]
  /\ UNCHANGED <<now, submissionRateLimit, usedPaymentHashes, chain, balance,
                 anchored, confessions, config, voteVars, adminVars>>

\* routes.ts, POST /api/confessions/:id/anchor: always refused.
PostAnchor(r) ==
  /\ req[r].pc = "idle"
  /\ req' = [req EXCEPT ![r] =
       Reply(DirectReq("POST /api/confessions/:id/anchor"), 403, "Direct anchoring is disabled")]
  /\ UNCHANGED <<now, submissionRateLimit, usedPaymentHashes, chain, balance,
                 anchored, confessions, config, voteVars, adminVars>>

\* What a client may post to the serverless handler: text present or missing,
\* isAnchored and txHash as it pleases (category is left to its default).
ApiBodies ==
  [originalText : Texts \cup {[id |-> "", len |-> 0]}, isAnchored : BOOLEAN,
   txHash : {NoTxHash, 2}]

\* api/index.ts, POST /api/confessions: inserts the row the client describes.
ApiPostConfessions(r, body) ==
  /\ req[r].pc = "idle"
  /\ LET rq == DirectReq("POST /api/confessions")
         id == Len(confessions) + 1
         row == [id |-> id, originalText |-> body.originalText,
                 displayText |-> body.originalText, category |-> "Other",
                 sentimentScore |-> 50, isAnchored |-> body.isAnchored,
                 txHash |-> body.txHash, isHidden |-> FALSE, likes |-> 0, dislikes |-> 0,
                 timestamp |-> now \div 1000, authorId |-> NoAuthor]
     IN IF body.originalText.len = 0
          THEN /\ req' = [req EXCEPT ![r] =
                    Reply(rq, 400, "originalText and displayText are required")]
               /\ UNCHANGED confessions
          ELSE /\ Len(confessions) < MaxRows
               /\ confessions' = Append(confessions, row)
               /\ req' = [req EXCEPT ![r] =
                    [Reply(rq, 201, "") EXCEPT !.res.confession = id]]
  /\ UNCHANGED <<now, submissionRateLimit, usedPaymentHashes, chain, balance,
                 anchored, config, voteVars, adminVars>>

\* api/index.ts, POST /api/confessions/:id/anchor: sets isAnchored and txHash
\* of row id to what the client sends.
ApiPostAnchor(r, id, txHash) ==
  /\ req[r].pc = "idle"
  /\ LET rq == DirectReq("POST /api/confessions/:id/anchor")
     IN IF txHash = NoTxHash
          THEN /\ req' = [req EXCEPT ![r] = Reply(rq, 400, "Transaction hash required")]
               /\ UNCHANGED confessions
        ELSE IF id \notin DOMAIN confessions
          THEN /\ req' = [req EXCEPT ![r] = Reply(rq, 404, "Confession not found")]
               /\ UNCHANGED confessions
        ELSE /\ confessions' = [confessions EXCEPT ![id].isAnchored = TRUE,
                                                   ![id].txHash = txHash]
             /\ req' = [req EXCEPT ![r] = [Reply(rq, 200, "") EXCEPT !.res.confession = id]]
  /\ UNCHANGED <<now, submissionRateLimit, usedPaymentHashes, chain, balance,
                 anchored, config, voteVars, adminVars>>

\* ------------------------------------------------------------------ votes

\* what the relayer, the chain and the environment hold: no vote step touches it
relayVars == <<submissionRateLimit, usedPaymentHashes, req, chain, balance, anchored, config>>

\* vote operations are numbered in the order the server receives them
NextVoteOp(o) == vreq[o].pc = "idle" /\ (IF o = 1 THEN TRUE ELSE vreq[o - 1].pc # "idle")

\* ids of the rows select ... where confessionId = c and visitorId = v returns
VotesOf(c, v) ==
  {i \in DOMAIN votes :
     ~votes[i].deleted /\ votes[i].confessionId = c /\ votes[i].visitorId = v}

\* mutant: a repeated vote is treated as a switch
sameVoteType_Never(existingVote, voteType) == FALSE

\* if (existingVote.voteType === voteType) return
sameVoteType(existingVote, voteType) == existingVote.voteType = voteType

\* const likeDelta = voteType === 'like' ? 1 : -1
likeDelta(voteType) == IF voteType = "like" THEN 1 ELSE -1

\* const dislikeDelta = voteType === 'dislike' ? 1 : -1
dislikeDelta(voteType) == IF voteType = "dislike" THEN 1 ELSE -1

\* POST /api/confessions/:id/vote: the body is parsed, the confession looked
\* up (404 if absent) and createOrUpdateVote called, up to its await of getVote.
BeginVote(o, c, v, t) ==
  /\ NextVoteOp(o)
  /\ vreq' = [vreq EXCEPT ![o] =
       IF c \notin DOMAIN confessions
         THEN [IdleVote EXCEPT !.pc = "done", !.op = "vote", !.status = 404]
       ELSE [IdleVote EXCEPT !.pc = "getVote", !.op = "vote", !.confessionId = c,
                             !.visitorId = v, !.voteType = t]]
  /\ UNCHANGED <<now, confessions, votes, relayVars, adminVars>>

\* DELETE /api/confessions/:id/vote: removeVote called, up to its await of getVote.
BeginRemove(o, c, v) ==
  /\ NextVoteOp(o)
  /\ vreq' = [vreq EXCEPT ![o] =
       [IdleVote EXCEPT !.pc = "getVote", !.op = "remove", !.confessionId = c,
                        !.visitorId = v]]
  /\ UNCHANGED <<now, confessions, votes, relayVars, adminVars>>

\* getVote returns the first row the select yields (row `pick'), or undefined
\* (pick = 0) when it yields none; the caller branches on it.
GetVote(o, pick) ==
  /\ vreq[o].pc = "getVote"
  /\ LET vr == vreq[o]
         found == VotesOf(vr.confessionId, vr.visitorId)
         existingVote == IF pick = 0 THEN None
                         ELSE [id |-> pick, voteType |-> votes[pick].voteType]
     IN /\ IF found = {} THEN pick = 0 ELSE pick \in found
        /\ vreq' = [vreq EXCEPT ![o] =
             IF vr.op = "vote"
               THEN IF existingVote = None
                      THEN [vr EXCEPT !.pc = "insertVote"]
                    ELSE IF sameVoteType(existingVote, vr.voteType)
                      THEN [vr EXCEPT !.pc = "done", !.existingVote = existingVote,
                                      !.status = 200]
                    ELSE [vr EXCEPT !.pc = "updateVote", !.existingVote = existingVote]
             ELSE IF existingVote = None
               THEN [vr EXCEPT !.pc = "done", !.status = 200]
             ELSE [vr EXCEPT !.pc = "deleteVote", !.existingVote = existingVote]]
  /\ UNCHANGED <<now, confessions, votes, relayVars, adminVars>>

\* db.update(votes).set({voteType}).where(eq(votes.id, existingVote.id))
UpdateVote(o) ==
  /\ vreq[o].pc = "updateVote"
  /\ LET id == vreq[o].existingVote.id
     IN votes' = IF votes[id].deleted THEN votes
                 ELSE [votes EXCEPT ![id].voteType = vreq[o].voteType]
  /\ vreq' = [vreq EXCEPT ![o].pc = "updateCounts"]
  /\ UNCHANGED <<now, confessions, relayVars, adminVars>>

\* the switch: likes + likeDelta, dislikes + dislikeDelta in one update
UpdateCounts(o) ==
  /\ vreq[o].pc = "updateCounts"
  /\ LET c == vreq[o].confessionId
     IN confessions' = [confessions EXCEPT
          ![c].likes = @ + likeDelta(vreq[o].voteType),
          ![c].dislikes = @ + dislikeDelta(vreq[o].voteType)]
  /\ vreq' = [vreq EXCEPT ![o].pc = "done", ![o].status = 200]
  /\ UNCHANGED <<now, votes, relayVars, adminVars>>

\* db.insert(votes).values({confessionId, visitorId, voteType})
InsertVote(o) ==
  /\ vreq[o].pc = "insertVote"
  /\ Len(votes) < MaxVotes
  /\ votes' = Append(votes, [confessionId |-> vreq[o].confessionId,
                             visitorId |-> vreq[o].visitorId,
                             voteType |-> vreq[o].voteType, deleted |-> FALSE])
  /\ vreq' = [vreq EXCEPT ![o].pc = "bumpCount"]
  /\ UNCHANGED <<now, confessions, relayVars, adminVars>>

\* after the insert: likes + 1 or dislikes + 1
BumpCount(o) ==
  /\ vreq[o].pc = "bumpCount"
  /\ LET c == vreq[o].confessionId
     IN confessions' =
          IF vreq[o].voteType = "like"
            THEN [confessions EXCEPT ![c].likes = @ + 1]
          ELSE [confessions EXCEPT ![c].dislikes = @ + 1]
  /\ vreq' = [vreq EXCEPT ![o].pc = "done", ![o].status = 200]
  /\ UNCHANGED <<now, votes, relayVars, adminVars>>

\* db.delete(votes).where(eq(votes.id, existingVote.id))
DeleteVote(o) ==
  /\ vreq[o].pc = "deleteVote"
  /\ votes' = [votes EXCEPT ![vreq[o].existingVote.id].deleted = TRUE]
  /\ vreq' = [vreq EXCEPT ![o].pc = "dropCount"]
  /\ UNCHANGED <<now, confessions, relayVars, adminVars>>

\* after the delete: likes - 1 or dislikes - 1, by the type that was read
DropCount(o) ==
  /\ vreq[o].pc = "dropCount"
  /\ LET c == vreq[o].confessionId
     IN confessions' =
          IF vreq[o].existingVote.voteType = "like"
            THEN [confessions EXCEPT ![c].likes = @ - 1]
          ELSE [confessions EXCEPT ![c].dislikes = @ - 1]
  /\ vreq' = [vreq EXCEPT ![o].pc = "done", ![o].status = 200]
  /\ UNCHANGED <<now, votes, relayVars, adminVars>>

\* ------------------------------------------------------------------ admin

\* what no admin step touches
storeVars == <<submissionRateLimit, usedPaymentHashes, chain, balance, anchored, config,
               voteVars>>

\* mutant: nothing ever expires
expired_Never(entry, t) == FALSE

\* session.expiresAt < now, nonceData.expiresAt < now
expired(entry, t) == entry # None /\ entry.expiresAt < t

\* cleanupExpiredSessions, on either Map
cleanupExpired(map, t) == [k \in DOMAIN map |-> IF expired(map[k], t) THEN None ELSE map[k]]

\* the key of adminNonces: walletAddress.toLowerCase()
NonceKey(walletAddress) == AddrToLowerCase(walletAddress).id

\* mutant: any message passes the nonce test
includesNonce_Always(message, nonce) == TRUE

\* message.includes(nonceData.nonce)
includesNonce(message, nonce) == message.nonce = nonce

\* viem's verifyMessage: the signature is by that address, over that message
verifyMessage(address, message, signature) ==
  signature.by = address.id /\ signature.over = message

\* mutant: anyone who signs is the owner
notOwner_Never(walletAddress, ownerAddress) == FALSE

\* ownerAddress && walletAddress.toLowerCase() !== ownerAddress.toLowerCase()
notOwner(walletAddress, ownerAddress) ==
  ownerAddress # NoAddr /\ AddrToLowerCase(walletAddress) # AddrToLowerCase(ownerAddress)

\* mutant: a consumed nonce stays in the Map
consumeNonce_Skipped(nonces, key) == nonces

\* adminNonces.delete(walletAddress.toLowerCase())
consumeNonce(nonces, key) == [nonces EXCEPT ![key] = None]

\* what a client can put in a request: a message some nonce request returned
\* or no message at all
ClientMessages == {returned[i] : i \in DOMAIN returned} \cup {NoMessage}

\* the same messages, and the message api/index.ts builds for each nonce today
ClientMessagesToSign ==
  ClientMessages \cup {Message(returned[i].nonce, toISODate(now)) : i \in DOMAIN returned}

\* signatures by either wallet over those messages, a malformed one, or none
ClientSignatures(messages) ==
  {Signature(w, m) : w \in Wallets, m \in messages} \cup {BadSignature, NoSignature}

ClientAddresses == {Addr("owner", FALSE), Addr("owner", TRUE), Addr("mallory", TRUE), NoAddr}

\* verify requests are numbered in the order the server receives them
NextVerify(a) == areq[a].pc = "idle" /\ (IF a = 1 THEN TRUE ELSE areq[a - 1].pc # "idle")

\* the response is sent; the signature is of no use to anyone after that
AnswerVerify(vq, status, error) ==
  [vq EXCEPT !.pc = "done", !.status = status, !.error = error, !.signature = NoSignature]

\* routes.ts, POST /api/admin/nonce
Nonce(walletAddress) ==
  /\ config.deployment = "express"
  /\ Len(returned) < MaxNonce
  /\ adminSessions' = cleanupExpired(adminSessions, now)
  /\ IF walletAddress = NoAddr
       THEN /\ adminNonces' = cleanupExpired(adminNonces, now)
            /\ UNCHANGED returned
     ELSE LET nonce == Len(returned) + 1
          IN /\ adminNonces' = [cleanupExpired(adminNonces, now) EXCEPT
                  ![NonceKey(walletAddress)] =
                     [nonce |-> nonce, expiresAt |-> now + NONCE_TTL_MS]]
             /\ returned' = Append(returned, Message(nonce, DateNow(now)))
  /\ UNCHANGED <<now, req, confessions, storeVars, areq, minted>>

\* routes.ts, POST /api/admin/verify, up to its await of verifyMessage
VerifyBegin(a, walletAddress, message, signature) ==
  /\ config.deployment = "express"
  /\ NextVerify(a)
  /\ LET nonces == cleanupExpired(adminNonces, now)
         vq == [IdleVerify EXCEPT !.walletAddress = walletAddress, !.message = message,
                                  !.signature = signature]
         nonceData == nonces[NonceKey(walletAddress)]
     IN /\ adminNonces' = nonces
        /\ adminSessions' = cleanupExpired(adminSessions, now)
        /\ areq' = [areq EXCEPT ![a] =
             IF walletAddress = NoAddr \/ message = NoMessage \/ signature = NoSignature
               THEN AnswerVerify(vq, 400, "Missing required fields")
             ELSE IF nonceData = None \/ expired(nonceData, now)
               THEN AnswerVerify(vq, 401, "Nonce expired or invalid")
             ELSE IF ~includesNonce(message, nonceData.nonce)
               THEN AnswerVerify(vq, 401, "Invalid nonce in message")
             ELSE [vq EXCEPT !.pc = "verifyMessage", !.nonce = nonceData.nonce]]
  /\ UNCHANGED <<now, req, confessions, storeVars, returned, minted>>

\* routes.ts, POST /api/admin/verify, from the result of verifyMessage on
VerifyEnd(a) ==
  /\ config.deployment = "express"
  /\ areq[a].pc = "verifyMessage"
  /\ minted < MaxTokens
  /\ LET vq == areq[a]
         sessionToken == minted + 1
     IN IF vq.signature = BadSignature
          THEN /\ areq' = [areq EXCEPT ![a] = AnswerVerify(vq, 500, "Failed to verify signature")]
               /\ UNCHANGED <<adminNonces, adminSessions, minted>>
        ELSE IF ~verifyMessage(vq.walletAddress, vq.message, vq.signature)
          THEN /\ areq' = [areq EXCEPT ![a] = AnswerVerify(vq, 401, "Invalid signature")]
               /\ UNCHANGED <<adminNonces, adminSessions, minted>>
        ELSE IF notOwner(vq.walletAddress, config.ownerAddress)
          THEN /\ areq' = [areq EXCEPT ![a] = AnswerVerify(vq, 403, "Not authorized as admin")]
               /\ UNCHANGED <<adminNonces, adminSessions, minted>>
        ELSE /\ minted' = sessionToken
             /\ adminSessions' = [adminSessions EXCEPT ![sessionToken] =
                  [walletAddress |-> AddrToLowerCase(vq.walletAddress),
                   expiresAt |-> now + SESSION_TTL_MS]]
             /\ adminNonces' = consumeNonce(adminNonces, NonceKey(vq.walletAddress))
             /\ areq' = [areq EXCEPT ![a] =
                  [AnswerVerify(vq, 200, "") EXCEPT !.sessionToken = sessionToken]]
  /\ UNCHANGED <<now, req, confessions, storeVars, returned>>

\* a visibility request, with its x-admin-session header (0: no header)
VisibilityReq(sessionToken) ==
  [DirectReq("PATCH /api/confessions/:id/visibility") EXCEPT
     !.body = [xAdminSession |-> sessionToken]]

\* mutant: any token opens the door
sessionInvalid_Never(session, t) == FALSE

\* !session || session.expiresAt < Date.now()
sessionInvalid(session, t) == session = None \/ expired(session, t)

\* mutant: hiding a confession also clears its counters
updateConfessionVisibility_ResetsCounters(table, id, isHidden) ==
  [table EXCEPT ![id].isHidden = isHidden, ![id].likes = 0, ![id].dislikes = 0]

\* db.update(confessions).set({ isHidden }).where(eq(confessions.id, id))
updateConfessionVisibility(table, id, isHidden) == [table EXCEPT ![id].isHidden = isHidden]

\* the body of a visibility request: isHidden and what typeof says of it
VisibilityBodies == {[isHidden |-> TRUE, typeof |-> "boolean"],
                     [isHidden |-> FALSE, typeof |-> "boolean"],
                     [isHidden |-> TRUE, typeof |-> "string"]}

\* routes.ts, PATCH /api/confessions/:id/visibility; sessionToken 0: no header
PatchVisibility(r, id, body, sessionToken) ==
  /\ config.deployment = "express"
  /\ req[r].pc = "idle"
  /\ LET rq == VisibilityReq(sessionToken)
         sessions == cleanupExpired(adminSessions, now)
         session == IF sessionToken = 0 THEN None ELSE sessions[sessionToken]
     IN /\ adminNonces' = cleanupExpired(adminNonces, now)
        /\ IF sessionToken = 0
             THEN /\ req' = [req EXCEPT ![r] = Reply(rq, 401, "Admin session required")]
                  /\ adminSessions' = sessions
                  /\ UNCHANGED confessions
           ELSE IF sessionInvalid(session, now)
             THEN /\ req' = [req EXCEPT ![r] = Reply(rq, 401, "Session expired")]
                  /\ adminSessions' = [sessions EXCEPT ![sessionToken] = None]
                  /\ UNCHANGED confessions
           ELSE IF body.typeof # "boolean"
             THEN /\ req' = [req EXCEPT ![r] = Reply(rq, 400, "isHidden must be a boolean")]
                  /\ adminSessions' = sessions
                  /\ UNCHANGED confessions
           ELSE IF id \notin DOMAIN confessions
             THEN /\ req' = [req EXCEPT ![r] = Reply(rq, 404, "Confession not found")]
                  /\ adminSessions' = sessions
                  /\ UNCHANGED confessions
           ELSE /\ confessions' = updateConfessionVisibility(confessions, id, body.isHidden)
                /\ adminSessions' = sessions
                /\ req' = [req EXCEPT ![r] = [Reply(rq, 200, "") EXCEPT !.res.confession = id]]
  /\ UNCHANGED <<now, storeVars, areq, returned, minted>>

\* api/index.ts, POST /api/admin/nonce
ApiNonce(walletAddress) ==
  /\ config.deployment = "vercel"
  /\ Len(returned) < MaxNonce
  /\ IF walletAddress = NoAddr
       THEN UNCHANGED <<adminNonces, adminSessions, returned>>
     ELSE LET nonce == Len(returned) + 1
          IN /\ adminSessions' = cleanupExpired(adminSessions, now)
             /\ adminNonces' = [cleanupExpired(adminNonces, now) EXCEPT
                  ![NonceKey(walletAddress)] =
                     [nonce |-> nonce, expiresAt |-> now + NONCE_TTL_MS]]
             /\ returned' = Append(returned, Message(nonce, toISOString(now)))
  /\ UNCHANGED <<now, req, confessions, storeVars, areq, minted>>

\* api/index.ts, POST /api/admin/verify, up to its await of verifyMessage:
\* the message is not read from the body but built from the stored nonce
ApiVerifyBegin(a, walletAddress, signature) ==
  /\ config.deployment = "vercel"
  /\ NextVerify(a)
  /\ LET vq == [IdleVerify EXCEPT !.walletAddress = walletAddress, !.signature = signature]
         nonceData == adminNonces[NonceKey(walletAddress)]
     IN areq' = [areq EXCEPT ![a] =
          IF walletAddress = NoAddr \/ signature = NoSignature
            THEN AnswerVerify(vq, 400, "Wallet address and signature required")
          ELSE IF nonceData = None \/ expired(nonceData, now)
            THEN AnswerVerify(vq, 401, "Nonce expired or not found")
          ELSE [vq EXCEPT !.pc = "verifyMessage", !.nonce = nonceData.nonce,
                          !.message = Message(nonceData.nonce, toISODate(now))]]
  /\ UNCHANGED <<now, req, confessions, storeVars, adminNonces, adminSessions, returned, minted>>

\* api/index.ts, POST /api/admin/verify, from the result of verifyMessage on
ApiVerifyEnd(a) ==
  /\ config.deployment = "vercel"
  /\ areq[a].pc = "verifyMessage"
  /\ minted < MaxTokens
  /\ LET vq == areq[a]
         sessionToken == minted + 1
     IN IF vq.signature = BadSignature
          THEN /\ areq' = [areq EXCEPT ![a] = AnswerVerify(vq, 401, "Signature verification failed")]
               /\ UNCHANGED <<adminNonces, adminSessions, minted>>
        ELSE IF ~verifyMessage(vq.walletAddress, vq.message, vq.signature)
          THEN /\ areq' = [areq EXCEPT ![a] = AnswerVerify(vq, 401, "Invalid signature")]
               /\ UNCHANGED <<adminNonces, adminSessions, minted>>
        ELSE /\ minted' = sessionToken
             /\ adminNonces' = [adminNonces EXCEPT ![NonceKey(vq.walletAddress)] = None]
             /\ adminSessions' = [adminSessions EXCEPT ![sessionToken] =
                  [walletAddress |-> vq.walletAddress, expiresAt |-> now + SESSION_TTL_MS]]
             /\ areq' = [areq EXCEPT ![a] =
                  [AnswerVerify(vq, 200, "") EXCEPT !.sessionToken = sessionToken]]
  /\ UNCHANGED <<now, req, confessions, storeVars, returned>>

\* api/index.ts, PATCH /api/confessions/:id/visibility; sessionToken 0: no header
ApiPatchVisibility(r, id, isHidden, sessionToken) ==
  /\ config.deployment = "vercel"
  /\ req[r].pc = "idle"
  /\ LET rq == VisibilityReq(sessionToken)
         sessions == cleanupExpired(adminSessions, now)
         session == IF sessionToken = 0 THEN None ELSE sessions[sessionToken]
     IN IF sessionToken = 0
          THEN /\ req' = [req EXCEPT ![r] = Reply(rq, 401, "Admin session required")]
               /\ UNCHANGED <<adminNonces, adminSessions, confessions>>
        ELSE /\ adminNonces' = cleanupExpired(adminNonces, now)
             /\ adminSessions' = sessions
             /\ IF sessionInvalid(session, now)
                  THEN /\ req' = [req EXCEPT ![r] = Reply(rq, 401, "Session expired")]
                       /\ UNCHANGED confessions
                ELSE IF id \notin DOMAIN confessions
                  THEN /\ req' = [req EXCEPT ![r] = Reply(rq, 404, "Confession not found")]
                       /\ UNCHANGED confessions
                ELSE /\ confessions' = [confessions EXCEPT ![id].isHidden = isHidden]
                     /\ req' = [req EXCEPT ![r] =
                          [Reply(rq, 200, "") EXCEPT !.res.confession = id]]
  /\ UNCHANGED <<now, storeVars, areq, returned, minted>>

\* ------------------------------------------------------------ environment

\* the require that fails when transaction tx is mined with status st
revertReason(tx, st) ==
  IF st # "reverted" THEN ""
  ELSE IF tx.from = "relayer" /\ tx.data \in anchored THEN "Already exists"
  ELSE "other"

\* A pending transaction is mined. storeConfessionHash succeeds only for a
\* content hash the contract does not hold yet, and then takes msg.value.
\* The balance follows what the relayer spends; gas is not counted and the
\* user's payment is taken to be part of the initial balance.
MineTx(h, st) ==
  /\ chain[h] # None
  /\ chain[h].status = "pending"
  /\ chain' = [chain EXCEPT ![h].status = st, ![h].revertReason = revertReason(chain[h], st)]
  /\ IF chain[h].from = "relayer" /\ st = "success"
       THEN /\ chain[h].data \notin anchored
            /\ anchored' = anchored \cup {chain[h].data}
            /\ balance' = balance - chain[h].value
       ELSE UNCHANGED <<anchored, balance>>
  /\ UNCHANGED <<now, submissionRateLimit, usedPaymentHashes, req, confessions, config, voteVars, adminVars>>

\* Time passes, up to one of the instants the clock can show.
Instants == {a * HOUR_MS + b : a \in 0..MaxHours, b \in 0..MaxMs}

Tick(t) ==
  /\ t > now
  /\ now' = t
  /\ UNCHANGED <<submissionRateLimit, usedPaymentHashes, req, chain, balance,
                 anchored, confessions, config, voteVars, adminVars>>

Next ==
  \/ \E r \in Req, body \in Bodies : Begin(r, "ip1", body)
  \/ \E r \in Req, ok \in BOOLEAN, f \in FeeValues : ReadContract(r, ok, f)
  \/ \E r \in Req, ok \in BOOLEAN : GetTransaction(r, ok)
  \/ \E r \in Req, ok \in BOOLEAN : GetTransactionReceipt(r, ok)
  \/ \E r \in Req, ok \in BOOLEAN : GetBalance(r, ok)
  \/ \E r \in Req, out \in {"sent", "exists", "error"} : SendTransaction(r, out)
  \/ \E r \in Req : WaitForTransactionReceipt(r)
  \/ \E r \in Req : WaitTimeout(r)
  \/ \E r \in Req, ok \in BOOLEAN : CreateConfession(r, ok)
  \/ \E r \in Req : Recycle(r)
  \/ \E h \in HashIds, st \in {"success", "reverted"} : MineTx(h, st)

Spec == Init /\ [][Next]_vars

\* The handler under fair scheduling: one invocation at a time, every awaited
\* call eventually returns or throws, and the confirmation wait ends with the
\* receipt or with its timeout. Nothing obliges requests to arrive or pending
\* transactions to be mined.
LiveReq == {1}

NextLive ==
  \/ \E r \in LiveReq, body \in Bodies : Begin(r, "ip1", body)
  \/ \E r \in LiveReq, ok \in BOOLEAN, f \in FeeValues : ReadContract(r, ok, f)
  \/ \E r \in LiveReq, ok \in BOOLEAN : GetTransaction(r, ok)
  \/ \E r \in LiveReq, ok \in BOOLEAN : GetTransactionReceipt(r, ok)
  \/ \E r \in LiveReq, ok \in BOOLEAN : GetBalance(r, ok)
  \/ \E r \in LiveReq, out \in {"sent", "exists", "error"} : SendTransaction(r, out)
  \/ \E r \in LiveReq : WaitForTransactionReceipt(r)
  \/ \E r \in LiveReq : WaitTimeout(r)
  \/ \E r \in LiveReq, ok \in BOOLEAN : CreateConfession(r, ok)
  \/ \E r \in LiveReq : Recycle(r)
  \/ \E h \in HashIds, st \in {"success", "reverted"} : MineTx(h, st)

\* every await of an invocation in flight settles
AwaitsSettle ==
  \A r \in LiveReq :
    /\ WF_vars(\E ok \in BOOLEAN, f \in FeeValues : ReadContract(r, ok, f))
    /\ WF_vars(\E ok \in BOOLEAN : GetTransaction(r, ok))
    /\ WF_vars(\E ok \in BOOLEAN : GetTransactionReceipt(r, ok))
    /\ WF_vars(\E ok \in BOOLEAN : GetBalance(r, ok))
    /\ WF_vars(\E out \in {"sent", "exists", "error"} : SendTransaction(r, out))
    /\ WF_vars(WaitForTransactionReceipt(r) \/ WaitTimeout(r))
    /\ WF_vars(\E ok \in BOOLEAN : CreateConfession(r, ok))

SpecLive == Init /\ [][NextLive]_vars /\ AwaitsSettle

\* Two submissions that pay with the same confirmed payment, named in either
\* letter case, by either payer and from either network address.
Payers == {"alice", "bob"}

InitAnon ==
  /\ now = 0
  /\ submissionRateLimit = [k \in IPs |-> NoRecord]
  /\ usedPaymentHashes = {}
  /\ req = [r \in Req |-> IdleReq]
  /\ \E p \in Payers :
       chain = [h \in HashIds |->
                  IF h = 1 THEN [from |-> p, to |-> Addr("relayer", TRUE),
                                 value |-> DEFAULT_FEE_WEI, data |-> <<>>, status |-> "success",
                 revertReason |-> ""]
                  ELSE None]
  /\ balance = 500
  /\ anchored = {}
  /\ confessions = <<>>
  /\ config = [relayerKey |-> TRUE, contractAddress |-> TRUE, ownerAddress |-> OwnerAddress,
              deployment |-> "express"]
  /\ InitVotes /\ InitAdmin

NextAnon ==
  \/ \E r \in Req, ip \in IPs, body \in Bodies : Begin(r, ip, body)
  \/ \E r \in Req, ok \in BOOLEAN, f \in FeeValues : ReadContract(r, ok, f)
  \/ \E r \in Req, ok \in BOOLEAN : GetTransaction(r, ok)
  \/ \E r \in Req, ok \in BOOLEAN : GetTransactionReceipt(r, ok)
  \/ \E r \in Req, ok \in BOOLEAN : GetBalance(r, ok)
  \/ \E r \in Req, out \in {"sent", "exists", "error"} : SendTransaction(r, out)
  \/ \E r \in Req : WaitForTransactionReceipt(r)
  \/ \E r \in Req : WaitTimeout(r)
  \/ \E r \in Req, ok \in BOOLEAN : CreateConfession(r, ok)
  \/ \E h \in HashIds, st \in {"success", "reverted"} : MineTx(h, st)

SpecAnon == InitAnon /\ [][NextAnon]_vars

\* The confessions table under every endpoint that can write it: one paid
\* submission through the relayer in slot 1, and in slot 2 the direct endpoints
\* as routes.ts and as api/index.ts serve them, one request after another.
StoreReq == {2}

StoreEmpty ==
  /\ now = 0
  /\ submissionRateLimit = [k \in IPs |-> NoRecord]
  /\ usedPaymentHashes = {}
  /\ req = [r \in Req |-> IdleReq]
  /\ chain = [h \in HashIds |->
                IF h = 1 THEN [from |-> "user", to |-> Addr("relayer", TRUE),
                               value |-> DEFAULT_FEE_WEI, data |-> <<>>, status |-> "success",
                 revertReason |-> ""]
                ELSE None]
  /\ balance = 500
  /\ anchored = {}
  /\ confessions = <<>>
  /\ config = [relayerKey |-> TRUE, contractAddress |-> TRUE, ownerAddress |-> OwnerAddress,
              deployment |-> "express"]

InitStore == StoreEmpty /\ InitVotes /\ InitAdmin

NextStore ==
  \/ \E r \in LiveReq : Begin(r, "ip1", GoodBody)
  \/ \E r \in LiveReq, ok \in BOOLEAN : ReadContract(r, ok, DEFAULT_FEE_WEI)
  \/ \E r \in LiveReq, ok \in BOOLEAN : GetTransaction(r, ok)
  \/ \E r \in LiveReq, ok \in BOOLEAN : GetTransactionReceipt(r, ok)
  \/ \E r \in LiveReq, ok \in BOOLEAN : GetBalance(r, ok)
  \/ \E r \in LiveReq, out \in {"sent", "exists", "error"} : SendTransaction(r, out)
  \/ \E r \in LiveReq : WaitForTransactionReceipt(r)
  \/ \E r \in LiveReq : WaitTimeout(r)
  \/ \E r \in LiveReq, ok \in BOOLEAN : CreateConfession(r, ok)
  \/ \E h \in HashIds, st \in {"success", "reverted"} : MineTx(h, st)
  \/ \E r \in StoreReq : PostConfessions(r)
  \/ \E r \in StoreReq : PostAnchor(r)
  \/ \E r \in StoreReq, body \in ApiBodies : ApiPostConfessions(r, body)
  \/ \E r \in StoreReq, id \in 1..MaxRows, h \in {NoTxHash, 2, 3} : ApiPostAnchor(r, id, h)
  \/ \E r \in StoreReq, id \in 1..MaxRows, body \in VisibilityBodies, t \in {0} \cup Tokens :
       PatchVisibility(r, id, body, t)
  \/ \E r \in StoreReq : Recycle(r)

SpecStore == InitStore /\ [][NextStore]_vars

\* The votes table and the counters under concurrent vote operations on the
\* confession that one paid submission has left in the table.
TablesAfterSubmit ==
  /\ now = 0
  /\ submissionRateLimit = [k \in IPs |-> IF k = "ip1" THEN [count |-> 1, resetAt |-> HOUR_MS]
                                          ELSE NoRecord]
  /\ usedPaymentHashes = {TxHashStr(1, FALSE)}
  /\ req = [r \in Req |-> IdleReq]
  /\ chain = [h \in HashIds |->
                IF h = 1 THEN [from |-> "user", to |-> Addr("relayer", TRUE),
                               value |-> DEFAULT_FEE_WEI, data |-> <<>>, status |-> "success",
                 revertReason |-> ""]
                ELSE IF h = 2 THEN [from |-> "relayer", to |-> CONTRACT_ADDRESS,
                                    value |-> DEFAULT_FEE_WEI,
                                    data |-> keccak256(GoodBody.confessionText),
                                    status |-> "success",
                 revertReason |-> ""]
                ELSE None]
  /\ balance = 500 - DEFAULT_FEE_WEI
  /\ anchored = {keccak256(GoodBody.confessionText)}
  /\ confessions = <<[id |-> 1, originalText |-> GoodBody.confessionText,
                      displayText |-> GoodBody.confessionText, category |-> GoodBody.category,
                      sentimentScore |-> 50, isAnchored |-> TRUE, txHash |-> 2,
                      isHidden |-> FALSE, likes |-> 0, dislikes |-> 0,
                      timestamp |-> 0, authorId |-> NoAuthor]>>

InitAfterSubmit ==
  /\ TablesAfterSubmit
  /\ config = [relayerKey |-> TRUE, contractAddress |-> TRUE, ownerAddress |-> OwnerAddress,
              deployment |-> "express"]

InitVoting == InitAfterSubmit /\ InitVotes /\ InitAdmin

NextVotes ==
  \/ \E o \in VoteOps, c \in 1..2, v \in Visitors, t \in VoteTypes : BeginVote(o, c, v, t)
  \/ \E o \in VoteOps, c \in 1..2, v \in Visitors : BeginRemove(o, c, v)
  \/ \E o \in VoteOps, pick \in 0..MaxVotes : GetVote(o, pick)
  \/ \E o \in VoteOps : UpdateVote(o)
  \/ \E o \in VoteOps : UpdateCounts(o)
  \/ \E o \in VoteOps : InsertVote(o)
  \/ \E o \in VoteOps : BumpCount(o)
  \/ \E o \in VoteOps : DeleteVote(o)
  \/ \E o \in VoteOps : DropCount(o)

SpecVotes == InitVoting /\ [][NextVotes]_vars

\* The admin endpoints of either deployment (each has its own two Maps; the
\* table is the one the paid submission has written to), with a clock that
\* can show the instants around the two expiries.
AdminInstants == {0, NONCE_TTL_MS, NONCE_TTL_MS + 1, SESSION_TTL_MS, SESSION_TTL_MS + 1}

InitAdministration ==
  /\ TablesAfterSubmit
  /\ config \in [relayerKey : {TRUE}, contractAddress : {TRUE}, ownerAddress : {OwnerAddress},
                 deployment : {"express", "vercel"}]
  /\ InitVotes /\ InitAdmin

\* the verify slot a session request goes through when nothing races it
OneVerify == {1}

NextAdmin ==
  \/ \E w \in ClientAddresses : Nonce(w)
  \/ \E a \in Verifies, w \in ClientAddresses, m \in ClientMessages,
        s \in ClientSignatures(ClientMessages) : VerifyBegin(a, w, m, s)
  \/ \E a \in Verifies : VerifyEnd(a)
  \/ \E w \in ClientAddresses : ApiNonce(w)
  \/ \E a \in Verifies, w \in ClientAddresses,
        s \in ClientSignatures(ClientMessagesToSign) : ApiVerifyBegin(a, w, s)
  \/ \E a \in Verifies : ApiVerifyEnd(a)
  \/ \E t \in AdminInstants : Tick(t)

SpecAdmin == InitAdministration /\ [][NextAdmin]_vars

\* The privileged endpoint of either deployment, with sessions obtained by
\* verify requests that run one at a time.
NextSession ==
  \/ \E w \in ClientAddresses : Nonce(w)
  \/ \E a \in OneVerify, w \in ClientAddresses, m \in ClientMessages,
        s \in ClientSignatures(ClientMessages) : VerifyBegin(a, w, m, s)
  \/ \E a \in OneVerify : VerifyEnd(a)
  \/ \E r \in StoreReq, id \in 1..MaxRows, body \in VisibilityBodies, t \in {0} \cup Tokens :
       PatchVisibility(r, id, body, t)
  \/ \E w \in ClientAddresses : ApiNonce(w)
  \/ \E a \in OneVerify, w \in ClientAddresses,
        s \in ClientSignatures(ClientMessagesToSign) : ApiVerifyBegin(a, w, s)
  \/ \E a \in OneVerify : ApiVerifyEnd(a)
  \/ \E r \in StoreReq, id \in 1..MaxRows, hid \in BOOLEAN, t \in {0} \cup Tokens :
       ApiPatchVisibility(r, id, hid, t)
  \/ \E r \in StoreReq : Recycle(r)
  \/ \E t \in AdminInstants : Tick(t)

SpecSession == InitAdministration /\ [][NextSession]_vars

\* Everything that writes a confession row, together: the paid submission
\* of slot 1 at its insert (its transaction has been mined), the direct
\* endpoints of either deployment in slot 2, visibility changes under the
\* session the owner obtained at instant 0, and two vote operations of one
\* visitor.
CountingOps == {1, 2}

InitSessionHeld ==
  /\ adminNonces = [w \in Wallets |-> None]
  /\ adminSessions = [t \in Tokens |->
       IF t = 1 THEN [walletAddress |-> AddrToLowerCase(OwnerAddress),
                      expiresAt |-> SESSION_TTL_MS]
       ELSE None]
  /\ areq = [a \in Verifies |->
       IF a = 1 THEN [AnswerVerify([IdleVerify EXCEPT !.walletAddress = OwnerAddress,
                                                     !.message = Message(1, DateNow(0)),
                                                     !.nonce = 1], 200, "")
                        EXCEPT !.sessionToken = 1]
       ELSE IdleVerify]
  /\ returned = <<Message(1, DateNow(0))>>
  /\ minted = 1

\* the state of TablesAfterSubmit one step earlier: the row is not inserted yet
StoreAtInsert ==
  /\ now = 0
  /\ submissionRateLimit = [k \in IPs |-> IF k = "ip1" THEN [count |-> 1, resetAt |-> HOUR_MS]
                                          ELSE NoRecord]
  /\ usedPaymentHashes = {TxHashStr(1, FALSE)}
  /\ req = [r \in Req |->
       IF r = 1 THEN [IdleReq EXCEPT !.pc = "createConfession",
                                     !.route = "POST /api/relayer/submit", !.ip = "ip1",
                                     !.body = GoodBody, !.feeWei = DEFAULT_FEE_WEI,
                                     !.feeFallback = TRUE,
                                     !.paymentTx = [from |-> "user", to |-> Addr("relayer", TRUE),
                                                    value |-> DEFAULT_FEE_WEI],
                                     !.txHash = 2]
       ELSE IdleReq]
  /\ chain = [h \in HashIds |->
                IF h = 1 THEN [from |-> "user", to |-> Addr("relayer", TRUE),
                               value |-> DEFAULT_FEE_WEI, data |-> <<>>, status |-> "success",
                               revertReason |-> ""]
                ELSE IF h = 2 THEN [from |-> "relayer", to |-> CONTRACT_ADDRESS,
                                    value |-> DEFAULT_FEE_WEI,
                                    data |-> keccak256(GoodBody.confessionText),
                                    status |-> "success", revertReason |-> ""]
                ELSE None]
  /\ balance = 500 - DEFAULT_FEE_WEI
  /\ anchored = {keccak256(GoodBody.confessionText)}
  /\ confessions = <<>>
  /\ config = [relayerKey |-> TRUE, contractAddress |-> TRUE, ownerAddress |-> OwnerAddress,
              deployment |-> "express"]

InitCounters == StoreAtInsert /\ InitVotes /\ InitSessionHeld

\* the one body the direct endpoint is given here
PlainBody == [originalText |-> [id |-> "gm", len |-> 2], isAnchored |-> FALSE,
              txHash |-> NoTxHash]

NextCounters ==
  \/ \E r \in LiveReq, ok \in BOOLEAN : CreateConfession(r, ok)
  \/ \E r \in StoreReq : ApiPostConfessions(r, PlainBody)
  \/ \E r \in StoreReq, id \in 1..MaxRows : ApiPostAnchor(r, id, 3)
  \/ \E r \in StoreReq, id \in 1..MaxRows, body \in VisibilityBodies, t \in {0, 1} :
       PatchVisibility(r, id, body, t)
  \/ \E r \in StoreReq : Recycle(r)
  \/ \E o \in CountingOps, c \in 1..MaxRows, t \in VoteTypes : BeginVote(o, c, "v1", t)
  \/ \E o \in CountingOps, c \in 1..MaxRows : BeginRemove(o, c, "v1")
  \/ \E o \in CountingOps, pick \in 0..MaxVotes : GetVote(o, pick)
  \/ \E o \in CountingOps : UpdateVote(o)
  \/ \E o \in CountingOps : UpdateCounts(o)
  \/ \E o \in CountingOps : InsertVote(o)
  \/ \E o \in CountingOps : BumpCount(o)
  \/ \E o \in CountingOps : DeleteVote(o)
  \/ \E o \in CountingOps : DropCount(o)

SpecCounters == InitCounters /\ [][NextCounters]_vars

\* The rate limiter under a stream of submissions whose payment the chain does
\* not know, with the clock running.
InitRate ==
  /\ now = 0
  /\ submissionRateLimit = [k \in IPs |-> NoRecord]
  /\ usedPaymentHashes = {}
  /\ req = [r \in Req |-> IdleReq]
  /\ chain = [h \in HashIds |-> None]
  /\ balance = 500
  /\ anchored = {}
  /\ confessions = <<>>
  /\ config = [relayerKey |-> TRUE, contractAddress |-> TRUE, ownerAddress |-> OwnerAddress,
              deployment |-> "express"]
  /\ InitVotes /\ InitAdmin

NextRate ==
  \/ \E r \in Req, ip \in IPs, body \in RateBodies : Begin(r, ip, body)
  \/ \E r \in Req : ReadContract(r, TRUE, DEFAULT_FEE_WEI)
  \/ \E r \in Req, ok \in BOOLEAN : GetTransaction(r, ok)
  \/ \E r \in Req : Recycle(r)
  \/ \E t \in Instants : Tick(t)

SpecRate == InitRate /\ [][NextRate]_vars

\* Input validation under a stream of well-formed and malformed submissions,
\* the clock standing still.
NextInput ==
  \/ \E r \in Req, ip \in IPs, body \in InputBodies : Begin(r, ip, body)
  \/ \E r \in Req, ok \in BOOLEAN : ReadContract(r, ok, DEFAULT_FEE_WEI)
  \/ \E r \in Req, ok \in BOOLEAN : GetTransaction(r, ok)
  \/ \E r \in Req : Recycle(r)

SpecInput == InitRate /\ [][NextInput]_vars

\* ------------------------------------------------------------------ claims

\* the payment hash of the request in slot r, as the used-payment set keys it
UsedKey(r) == HashToLowerCase(req[r].body.paymentTxHash)

\* the request in slot r has broadcast its relayer transaction
Broadcast(r) == req[r].txHash # 0

AlreadyUsed(rq) ==
  rq.pc = "done" /\ rq.res.status = 400 /\ rq.res.error = "This payment has already been used"

\* C1: of two requests in flight together with the same payment hash, at most
\* one broadcasts a relayer transaction (the other is rejected as already used).
C1_OneRelayerTxPerPayment ==
  \A a, b \in Req :
    (a # b /\ req[a].pc \notin {"idle", "done"} /\ req[b].pc \notin {"idle", "done"}
       /\ UsedKey(a) = UsedKey(b))
    => ~(Broadcast(a) /\ Broadcast(b))

\* C2: once a request with payment hash h has answered success, every request
\* that arrives later with the same hash in any letter case, and gets past the
\* rate limit, the schema and the availability check, is rejected as already used.
C2_RejectedAfterSuccess ==
  [][\A r, q \in Req :
       (/\ q # r
        /\ req[q].pc = "done" /\ req[q].res.status = 200
        /\ req[r].pc = "idle" /\ req'[r].pc # "idle"
        /\ req'[r].body.paymentTxHash.id = req[q].body.paymentTxHash.id
        /\ req'[r].res.status \notin {429, 503}
        /\ req'[r].res.error # "Invalid data")
       => AlreadyUsed(req'[r])]_vars

\* C3: a payment hash that is marked used and whose request has broadcast its
\* relayer transaction is still marked used after every step.
C3_MarkSurvivesBroadcast ==
  [][\A r \in Req :
       (Broadcast(r) /\ UsedKey(r) \in usedPaymentHashes)
       => UsedKey(r) \in usedPaymentHashes']_vars

Underfunded(rq) ==
  rq.pc = "done" /\ rq.res.status = 503 /\ rq.res.error = "Relayer wallet needs more funding"

\* C4: when getBalance returns less than fee plus gas buffer, the request is
\* answered 503, has sent no relayer transaction, no confession is written and
\* its payment hash is not in the used-payment set when it returns.
C4_UnderfundedRollsBack ==
  [][\A r \in Req :
       (/\ req[r].pc = "getBalance" /\ req'[r].pc # "getBalance"
        /\ req'[r].res.error # "getBalance failed"
        /\ balance < req[r].feeWei + GAS_BUFFER_WEI)
       => /\ Underfunded(req'[r])
          /\ req'[r].txHash = 0
          /\ chain' = chain
          /\ confessions' = confessions
          /\ UsedKey(r) \notin usedPaymentHashes']_vars

\* C4 witness: a request was turned away for funding and the same hash was
\* marked again afterwards by the one request that went on to succeed.
C4_Witness ==
  \E r, q \in Req :
    /\ r # q /\ Underfunded(req[r])
    /\ req[q].pc = "done" /\ req[q].res.status = 200
    /\ UsedKey(q) = UsedKey(r)
    /\ usedPaymentHashes = {UsedKey(r)}
    /\ chain[3] = None

\* C5: every confession row carries a relayer transaction whose receipt was
\* success, and a request that ended otherwise (revert, timeout, any rejection)
\* has written no row.
C5_PersistOnlyAfterConfirmation ==
  /\ \A i \in DOMAIN confessions :
       LET tx == chain[confessions[i].txHash]
       IN tx # None /\ tx.from = "relayer" /\ tx.status = "success"
  /\ \A r \in Req :
       (req[r].pc = "done" /\ req[r].res.status # 200)
       => /\ req[r].res.confession = 0
          /\ \A i \in DOMAIN confessions : confessions[i].txHash # req[r].txHash

\* C5 witness: one request's transaction reverted while another's was confirmed
\* and persisted.
C5_Witness ==
  \E r \in Req :
    /\ req[r].pc = "done" /\ req[r].res.error = "Transaction reverted"
    /\ chain[req[r].txHash].status = "reverted"
    /\ Len(confessions) = 1

\* C6: every row written by the handler is anchored with the hash of the
\* transaction the relayer sent in that request; the response carries the same
\* hash, and it is never the hash the user supplied as payment.
C6_RelayerHashOnly ==
  /\ \A i \in DOMAIN confessions :
       /\ confessions[i].isAnchored
       /\ chain[confessions[i].txHash].from = "relayer"
  /\ \A r \in Req :
       (req[r].pc = "done" /\ req[r].res.status = 200)
       => LET row == confessions[req[r].res.confession]
          IN /\ row.txHash = req[r].txHash
             /\ req[r].res.txHash = req[r].txHash
             /\ row.txHash # req[r].body.paymentTxHash.id
             /\ chain[row.txHash].data = keccak256(req[r].body.confessionText)

\* C6 witness: a request that named its payment in upper case has succeeded.
C6_Witness ==
  \E r \in Req :
    /\ req[r].pc = "done" /\ req[r].res.status = 200
    /\ req[r].body.paymentTxHash.upper
    /\ Len(confessions) = 1

\* C7: for every finished request that broadcast a relayer transaction, the
\* transaction is confirmed on chain exactly when its confession row exists.
C7_ChainAndStoreAgree ==
  \A r \in Req :
    (req[r].pc = "done" /\ Broadcast(r))
    => ((chain[req[r].txHash].status = "success")
          <=> (\E i \in DOMAIN confessions : confessions[i].txHash = req[r].txHash))

WrongDestinationReply(rq) ==
  rq.pc = "done" /\ rq.res.error = "Payment must be sent to the relayer wallet"

\* C8: when the receipt fetch resolves, the payment is accepted only if it is
\* mined with status success, addressed to the relayer's 20 bytes in any letter
\* case, and worth at least the minimum; such a payment is turned away only when
\* a fetch throws. A mined, successful payment with another or no destination
\* is answered 400 with expected = relayer address and received = its
\* destination. No rejection of the verifier changes the used-payment set.
C8_PaymentVerification ==
  [][\A r \in Req :
       LET tx == chain[req[r].body.paymentTxHash.id]
           toRelayer == tx.to # NoAddr /\ tx.to.id = relayerAddress.id
           good == /\ tx # None /\ tx.status = "success" /\ toRelayer
                   /\ tx.value >= minPayment(req[r].feeWei)
           accepted == req'[r].pc = "getBalance"
           notFound == req'[r].res.error = "Payment transaction not found"
       IN /\ (req[r].pc = "getTransactionReceipt" /\ req'[r].pc # "getTransactionReceipt")
             => /\ accepted => (good /\ UsedKey(r) \in usedPaymentHashes')
                /\ ~accepted => /\ req'[r].pc = "done" /\ req'[r].res.status = 400
                                /\ usedPaymentHashes' = usedPaymentHashes
                /\ (good /\ ~accepted) => notFound
                /\ (tx # None /\ tx.status = "success" /\ ~toRelayer /\ ~notFound)
                   => /\ WrongDestinationReply(req'[r])
                      /\ req'[r].res.expected = relayerAddress
                      /\ req'[r].res.received = tx.to
          /\ (req[r].pc = "getTransaction" /\ req'[r].pc = "done")
             => /\ req'[r].res.status = 400
                /\ usedPaymentHashes' = usedPaymentHashes]_vars

\* C8 witness: a confirmed payment to another address has been turned away
\* while the used-payment set is still empty.
C8_Witness ==
  \E r \in Req :
    /\ WrongDestinationReply(req[r])
    /\ req[r].res.received = Addr("other", TRUE)
    /\ chain[1].status = "success"
    /\ usedPaymentHashes = {}

\* C9: a request that passed the amount check paid at least 90% of the fee it
\* was checked against: 100 * value >= 90 * feeWei.
C9_AtLeastNinetyPercent ==
  \A r \in Req :
    req[r].pc \in {"getBalance", "sendTransaction", "waitForTransactionReceipt",
                   "createConfession"}
    => 100 * req[r].paymentTx.value >= 90 * req[r].feeWei

\* C10: on every arriving request the limiter grants exactly while the key's
\* live record counts fewer than MAX_SUBMISSIONS_PER_HOUR grants, each grant
\* adds one to the count inside its window, a refusal changes nothing, and the
\* count never passes the maximum.
C10_AtMostTenPerWindow ==
  [][\A r \in Req :
       (req[r].pc = "idle" /\ req'[r].pc # "idle")
       => LET ip == req'[r].ip
              old == submissionRateLimit[ip]
              new == submissionRateLimit'[ip]
              live == old # NoRecord /\ old.resetAt >= now
              granted == req'[r].res.status # 429
          IN /\ new.count <= MAX_SUBMISSIONS_PER_HOUR
             /\ IF live
                  THEN /\ granted <=> old.count < MAX_SUBMISSIONS_PER_HOUR
                       /\ new.resetAt = old.resetAt
                       /\ new.count = old.count + (IF granted THEN 1 ELSE 0)
                  ELSE /\ granted
                       /\ new.count = 1
                       /\ new.resetAt = now + HOUR_MS]_vars

\* C10 witness: the eleventh request of a window has been refused while an
\* earlier request of the same key is still in flight.
C10_Witness ==
  \E r, q \in Req :
    /\ r # q
    /\ req[r].pc = "done" /\ req[r].res.status = 429
    /\ req[q].pc = "getTransaction" /\ req[q].ip = req[r].ip
    /\ submissionRateLimit[req[r].ip].count = MAX_SUBMISSIONS_PER_HOUR

\* a request arrives in slot r in this step
Arrives(r) == req[r].pc = "idle" /\ req'[r].pc # "idle"

RateLimited(rq) == rq.pc = "done" /\ rq.res.status = 429

\* C11: for a key whose record counts MAX_SUBMISSIONS_PER_HOUR and whose reset
\* time has passed, the next arriving request is allowed and leaves the record
\* with count 1 and a reset time one hour after the request.
C11_ExpiredWindowReplaced ==
  [][\A r \in Req :
       LET old == submissionRateLimit[req'[r].ip]
       IN (Arrives(r) /\ old.count = MAX_SUBMISSIONS_PER_HOUR /\ old.resetAt < now)
          => /\ ~RateLimited(req'[r])
             /\ submissionRateLimit'[req'[r].ip] = [count |-> 1, resetAt |-> now + HOUR_MS]]_vars

\* C11 witness: a key was refused in the window opened at time 0, and one
\* millisecond after that window's reset time a request of the same key is in
\* flight under a record that counts 1.
C11_Witness ==
  \E r, q \in Req :
    /\ r # q /\ req[r].ip = req[q].ip
    /\ RateLimited(req[r])
    /\ req[q].pc = "readContract"
    /\ now = HOUR_MS + 1
    /\ submissionRateLimit[req[q].ip] = [count |-> 1, resetAt |-> now + HOUR_MS]

\* C12: a request refused by the rate limiter is answered 429 with retryAfter
\* 3600 on arrival, before any await; the step leaves the key's record as it
\* was (count and reset time), removes from the map nothing but expired
\* records, and changes neither the chain, the used-payment set, the contract's
\* hashes, the relayer balance nor the confessions table.
C12_RefusalHasNoEffect ==
  [][\A r \in Req :
       (Arrives(r) /\ req'[r].res.status = 429)
       => /\ req'[r].pc = "done"
          /\ req'[r].res.retryAfter = RETRY_AFTER
          /\ req'[r].txHash = 0 /\ req'[r].paymentTx = None
          /\ submissionRateLimit'[req'[r].ip] = submissionRateLimit[req'[r].ip]
          /\ submissionRateLimit' = cleanupRateLimits(submissionRateLimit, now)
          /\ UNCHANGED <<usedPaymentHashes, chain, balance, anchored, confessions>>]_vars

\* C12 witness: a key is refused at the last instant of its window (now equals
\* its reset time) with its count at the maximum, while the other key's window
\* has expired and its record is gone.
C12_Witness ==
  \E r, q \in Req :
    /\ RateLimited(req[r]) /\ req[r].res.retryAfter = RETRY_AFTER
    /\ submissionRateLimit[req[r].ip] = [count |-> MAX_SUBMISSIONS_PER_HOUR, resetAt |-> now]
    /\ req[q].pc = "readContract" /\ req[q].ip # req[r].ip
    /\ submissionRateLimit[req[q].ip] = NoRecord

\* a body the schema must turn away, spelled out from the schema's four rules
Malformed(body) ==
  \/ body.confessionText.len = 0
  \/ body.confessionText.len > 1000
  \/ body.category \notin {"Greed", "Regret", "FOMO", "Rug", "Wisdom", "Other"}
  \/ ~body.paymentTxHash.hex

InvalidData(rq) == rq.pc = "done" /\ rq.res.status = 400 /\ rq.res.error = "Invalid data"

C14_DefaultFeeOnReadFailure ==
  [][\A r \in Req :
       LET rq == req[r]
           nx == req'[r]
           fell == rq.feeFallback
       IN /\ (rq.pc = "readContract" /\ nx.pc # "readContract")
             => /\ nx.pc = "getTransaction" /\ nx.res = NoRes
                /\ nx.feeFallback => nx.feeWei = DEFAULT_FEE_WEI
          /\ (fell /\ rq.pc # "idle" /\ nx.pc # "idle") => nx.feeWei = DEFAULT_FEE_WEI
          /\ (fell /\ rq.pc = "getTransactionReceipt" /\ nx.pc = "getBalance")
             => 100 * rq.paymentTx.value >= 90 * DEFAULT_FEE_WEI
          /\ (fell /\ rq.pc = "getTransactionReceipt"
                  /\ nx.res.error = "Insufficient payment amount")
             => 100 * rq.paymentTx.value < 90 * DEFAULT_FEE_WEI
          /\ (fell /\ rq.pc = "getBalance" /\ nx.pc = "sendTransaction")
             => balance >= DEFAULT_FEE_WEI + GAS_BUFFER_WEI
          /\ (fell /\ rq.pc = "getBalance" /\ Underfunded(nx))
             => balance < DEFAULT_FEE_WEI + GAS_BUFFER_WEI
          /\ (fell /\ rq.pc = "sendTransaction" /\ nx.pc = "waitForTransactionReceipt")
             => chain'[nx.txHash].value = DEFAULT_FEE_WEI]_vars

\* C14 witness: a request whose fee read failed has succeeded, its relayer
\* transaction carrying the default fee.
C14_Witness ==
  \E r \in Req :
    /\ req[r].pc = "done" /\ req[r].res.status = 200 /\ req[r].feeFallback
    /\ chain[req[r].txHash].value = DEFAULT_FEE_WEI
    /\ chain[req[r].txHash].status = "success"

\* C15: no request ends with an error response because the read of the
\* relayer's balance failed: a request that leaves the balance step finished
\* was turned away by the funding check on a balance that was read.
C15_BalanceReadAbsorbed ==
  \A r \in Req :
    ~(req[r].pc = "done" /\ req[r].res.status = 500 /\ req[r].res.error = "getBalance failed")

Reverted(rq) == rq.pc = "done" /\ rq.res.error = "Transaction reverted"

\* C16: when the receipt of the relayer's transaction has status reverted, the
\* request is answered with a 5xx status and fallback = true, the confessions
\* table is unchanged and holds no row for that transaction, and the payment
\* hash of the request is in the used-payment set.
C16_RevertKeepsPaymentUsed ==
  [][\A r \in Req :
       (/\ req[r].pc = "waitForTransactionReceipt" /\ req'[r].pc # "waitForTransactionReceipt"
        /\ chain[req[r].txHash].status = "reverted")
       => /\ Reverted(req'[r])
          /\ req'[r].res.status >= 500 /\ req'[r].res.status <= 599
          /\ req'[r].res.fallback
          /\ confessions' = confessions
          /\ \A i \in DOMAIN confessions : confessions[i].txHash # req[r].txHash
          /\ UsedKey(r) \in usedPaymentHashes']_vars

\* the request in slot r has been sent its response
Answered(r) ==
  req[r].pc = "done" /\ req[r].res.status \in {200, 400, 409, 429, 500, 503}

\* C17: every request that has arrived is eventually answered; no response is
\* sent before the handler finishes, and once it has answered, the invocation
\* does nothing more (its outcome and response stay as they are until the slot
\* is reused).
C17_EveryRequestAnswered ==
  /\ \A r \in Req : (req[r].pc # "idle") ~> Answered(r)
  /\ [][\A r \in Req :
          /\ (req[r].pc \notin {"idle", "done"}) => req[r].res = NoRes
          /\ (req[r].pc = "done") => (req'[r] = req[r] \/ req'[r] = IdleReq)]_vars

\* C17 witness: a request whose relayer transaction was never mined has been
\* answered by the timeout of the confirmation wait.
C17_Witness ==
  \E r \in Req :
    /\ Answered(r) /\ req[r].res.error = "Timed out while waiting for transaction"
    /\ chain[req[r].txHash].status = "pending"

\* target, call data and value of the relayer transaction of slot r
Payload(r) ==
  LET tx == chain[req[r].txHash] IN [to |-> tx.to, data |-> tx.data, value |-> tx.value]

\* the columns of the confessions table
ConfessionColumns ==
  {"id", "originalText", "displayText", "category", "sentimentScore", "isAnchored",
   "txHash", "isHidden", "likes", "dislikes", "timestamp", "authorId"}

\* C18: the relayer's transaction is sent by the relayer to the contract with
\* the hash of the text as call data and the fee as value, so two requests with
\* the same text and fee have the same payload whatever their payment hash,
\* payer and network address; a confession row has the columns of the table
\* and nothing else, its values are the text, the category, fixed defaults, no
\* author, the time of the insert and the relayer's transaction hash, and none
\* of them is the payment hash, the payer or the network address.
C18_PayloadFromTextAndFeeOnly ==
  /\ \A r \in Req :
       Broadcast(r)
       => /\ chain[req[r].txHash].from = "relayer"
          /\ Payload(r) = [to |-> CONTRACT_ADDRESS,
                           data |-> keccak256(req[r].body.confessionText),
                           value |-> req[r].feeWei]
  /\ \A a, b \in Req :
       (/\ Broadcast(a) /\ Broadcast(b)
        /\ req[a].body.confessionText = req[b].body.confessionText
        /\ req[a].body.category = req[b].body.category
        /\ req[a].feeWei = req[b].feeWei)
       => Payload(a) = Payload(b)
  /\ \A i \in DOMAIN confessions :
       LET row == confessions[i]
       IN /\ DOMAIN row = ConfessionColumns
          /\ row.id = i
          /\ row.originalText \in Texts /\ row.displayText = row.originalText
          /\ row.category \in confessionCategories
          /\ row.category \notin IPs \cup Payers
          /\ row.sentimentScore = 50 /\ row.isAnchored /\ ~row.isHidden
          /\ row.likes = 0 /\ row.dislikes = 0
          /\ row.authorId = NoAuthor
          /\ row.txHash \notin PayIds
          /\ chain[row.txHash].from = "relayer"
          /\ chain[row.txHash].data = keccak256(row.originalText)
  /\ \A r \in Req :
       (req[r].pc = "done" /\ req[r].res.status = 200)
       => LET row == confessions[req[r].res.confession]
          IN /\ row.originalText = req[r].body.confessionText
             /\ row.category = req[r].body.category
             /\ row.txHash = req[r].txHash

\* C18 witness: two requests from different network addresses, naming the
\* payment in different letter case, have both sent a relayer transaction, and
\* the one that was confirmed has its row.
C18_Witness ==
  \E a, b \in Req :
    /\ a # b /\ Broadcast(a) /\ Broadcast(b)
    /\ req[a].ip # req[b].ip
    /\ req[a].body.paymentTxHash.upper /\ ~req[b].body.paymentTxHash.upper
    /\ req[a].feeWei = req[b].feeWei
    /\ req[a].pc = "done" /\ req[a].res.status = 200
    /\ Len(confessions) = 1

\* the endpoints that write confessions without going through the relayer
DirectRoutes == {"POST /api/confessions", "POST /api/confessions/:id/anchor"}

\* C19: every request to POST /api/confessions or POST /api/confessions/:id/anchor
\* is answered 403 and leaves the table as it was; a row is added only by the
\* step of /api/relayer/submit that answers 200; and no step removes a row.
C19_OnlyRelayerCreates ==
  [][/\ \A r \in Req :
          (Arrives(r) /\ req'[r].route \in DirectRoutes)
          => (req'[r].res.status = 403 /\ confessions' = confessions)
     /\ Len(confessions') >= Len(confessions)
     /\ \A i \in DOMAIN confessions : confessions'[i].id = confessions[i].id
     /\ Len(confessions') > Len(confessions)
        => \E r \in Req : /\ req[r].pc = "createConfession"
                           /\ req'[r].pc = "done" /\ req'[r].res.status = 200]_vars

\* C20: a row that is anchored has a transaction hash, and once a row is
\* anchored no step changes its isAnchored or its txHash.
C20_AnchoredHashImmutable ==
  [][/\ \A i \in DOMAIN confessions' :
          confessions'[i].isAnchored => confessions'[i].txHash # NoTxHash
     /\ \A i \in DOMAIN confessions :
          confessions[i].isAnchored
          => /\ confessions'[i].isAnchored
             /\ confessions'[i].txHash = confessions[i].txHash]_vars

\* ------------------------------------------------------------ votes: claims

\* no vote operation is between its read and its last write
VotesQuiet == \A o \in VoteOps : vreq[o].pc \in {"idle", "done"}

\* the number of rows of type t that reference confession c
CountVotes(c, t) ==
  Cardinality({i \in DOMAIN votes :
     ~votes[i].deleted /\ votes[i].confessionId = c /\ votes[i].voteType = t})

\* C21: there is at most one Vote row per (confessionId, visitorId) pair,
\* whatever the interleaving of vote and removeVote requests.
C21_OneVotePerVisitor ==
  \A c \in DOMAIN confessions, v \in Visitors : Cardinality(VotesOf(c, v)) <= 1

\* C22: whenever no vote operation is in progress, each confession's likes is
\* the number of its like rows and its dislikes the number of its dislike rows.
C22_CountersMatchRows ==
  VotesQuiet
  => \A c \in DOMAIN confessions :
       /\ confessions[c].likes = CountVotes(c, "like")
       /\ confessions[c].dislikes = CountVotes(c, "dislike")

\* C23: the likes and dislikes counters of every confession are never negative.
C23_CountersNonNegative ==
  \A c \in DOMAIN confessions : confessions[c].likes >= 0 /\ confessions[c].dislikes >= 0

\* C24: a vote of type t by a visitor whose vote is already of type t, and a
\* removal by a visitor who has no vote, end at the read: the operation is
\* answered with the votes table and the counters unchanged, and an answered
\* operation takes no further step.
C24_RepeatAndAbsentRemoveAreNoOps ==
  [][\A o \in VoteOps :
       LET vr == vreq[o]
           mine == VotesOf(vr.confessionId, vr.visitorId)
       IN /\ (/\ vr.pc = "getVote" /\ vreq'[o] # vr
              /\ \/ /\ vr.op = "vote" /\ mine # {}
                    /\ \A i \in mine : votes[i].voteType = vr.voteType
                 \/ vr.op = "remove" /\ mine = {})
             => /\ vreq'[o].pc = "done" /\ vreq'[o].status = 200
                /\ votes' = votes /\ confessions' = confessions
          /\ vr.pc = "done" => vreq'[o] = vr]_vars

C24_Witness ==
  /\ \E o \in VoteOps : /\ vreq[o].pc = "done" /\ vreq[o].op = "vote"
                        /\ vreq[o].existingVote # None
                        /\ vreq[o].existingVote.voteType = vreq[o].voteType
  /\ \E o \in VoteOps : /\ vreq[o].pc = "done" /\ vreq[o].op = "remove"
                        /\ vreq[o].confessionId = 1 /\ vreq[o].existingVote = None

\* ------------------------------------------------------------ admin: claims

\* verify request a is received in this step, with every field it needs
VerifyArrives(a) == areq[a].pc = "idle" /\ areq'[a].pc # "idle" /\ areq'[a].status # 400

\* this step stores no session and produces no token
NoSessionIssued ==
  /\ minted' = minted
  /\ \A t \in Tokens : adminSessions'[t] # None => adminSessions'[t] = adminSessions[t]

\* C25: a verify request for a wallet address whose stored nonce is missing
\* or past its expiry is answered 401 at once and no session is issued,
\* whoever signed and whichever address it names.
C25_StaleNonceRejected ==
  [][\A a \in Verifies :
       LET nonceData == adminNonces[NonceKey(areq'[a].walletAddress)]
       IN (VerifyArrives(a) /\ (nonceData = None \/ nonceData.expiresAt < now))
          => /\ areq'[a].pc = "done" /\ areq'[a].status = 401
             /\ areq'[a].sessionToken = 0
             /\ NoSessionIssued]_vars

\* the owner is refused one millisecond after the nonce issued at 0 expired
C25_Witness ==
  \E a \in Verifies :
    /\ areq[a].pc = "done" /\ areq[a].status = 401
    /\ areq[a].walletAddress = OwnerAddress
    /\ areq[a].error \in {"Nonce expired or invalid", "Nonce expired or not found"}
    /\ returned # <<>> /\ returned[1].nonce = 1
    /\ now = NONCE_TTL_MS + 1 /\ minted = 0

\* C26: every stored admin session belongs to the configured owner address,
\* compared without regard to case.
C26_SessionsBelongToOwner ==
  \A t \in Tokens :
    adminSessions[t] # None
    => AddrToLowerCase(adminSessions[t].walletAddress) = AddrToLowerCase(config.ownerAddress)

\* C27: an admin nonce is one-shot: no two verify requests obtain a session
\* from the same nonce.
C27_NonceOneShot ==
  \A a, b \in Verifies :
    (a # b /\ areq[a].status = 200 /\ areq[b].status = 200) => areq[a].nonce # areq[b].nonce

\* C28: a verify request whose message does not contain the nonce stored
\* (and not expired) for its wallet address is answered 401 at once, stores no
\* session and leaves that nonce in place, the step removing nothing but
\* expired entries; and a session is issued only to a request whose message
\* contains the nonce that was read for it.
C28_MessageMustContainNonce ==
  [][\A a \in Verifies :
       LET key == NonceKey(areq'[a].walletAddress)
           nonceData == adminNonces[key]
       IN /\ (/\ VerifyArrives(a)
              /\ nonceData # None /\ ~(nonceData.expiresAt < now)
              /\ areq'[a].message.nonce # nonceData.nonce)
             => /\ areq'[a].pc = "done" /\ areq'[a].status = 401
                /\ NoSessionIssued
                /\ adminNonces'[key] = nonceData
                /\ adminNonces' = cleanupExpired(adminNonces, now)
                /\ adminSessions' = cleanupExpired(adminSessions, now)
          /\ (areq[a].status # 200 /\ areq'[a].status = 200)
             => areq[a].nonce # 0 /\ areq[a].message.nonce = areq[a].nonce]_vars

\* the owner's request is refused for a message built around another nonce
C28_Witness ==
  \E a \in Verifies :
    /\ areq[a].pc = "done" /\ areq[a].status = 401
    /\ areq[a].error = "Invalid nonce in message"
    /\ areq[a].walletAddress = OwnerAddress
    /\ areq[a].message.nonce # 0
    /\ adminNonces["owner"] # None /\ adminNonces["owner"].nonce # areq[a].message.nonce

\* C29: a visibility request changes isHidden only with a token that names
\* a stored session not past its expiry; with any other token, or none, it is
\* answered 401, every confession stays as it was, and the session the token
\* named, if it had expired, is no longer stored.
C29_VisibilityNeedsLiveSession ==
  [][\A r \in StoreReq :
       (req[r].pc = "idle" /\ req'[r].route = "PATCH /api/confessions/:id/visibility")
       => LET t == req'[r].body.xAdminSession
              live == /\ t # 0 /\ adminSessions[t] # None
                      /\ adminSessions[t].expiresAt >= now
          IN /\ ~live => /\ req'[r].res.status = 401
                         /\ confessions' = confessions
                         /\ t # 0 => adminSessions'[t] = None
             /\ confessions' # confessions => live /\ req'[r].res.status = 200]_vars

\* a row was hidden with session 1, and the same token is refused after the
\* session expired, the session being gone from the store
C29_Witness ==
  \E r \in StoreReq :
    /\ req[r].pc = "done" /\ req[r].route = "PATCH /api/confessions/:id/visibility"
    /\ req[r].res.status = 401 /\ req[r].res.error = "Session expired"
    /\ req[r].body.xAdminSession = 1 /\ minted >= 1 /\ adminSessions[1] = None
    /\ confessions[1].isHidden
    /\ now = SESSION_TTL_MS + 1

\* the message /api/admin/nonce returned together with nonce n
ReturnedWith(n) == returned[n]

\* verify request vq is the owner's, and its signature is the owner's over
\* exactly the message that was returned with the nonce read for it
HonestOwner(vq) ==
  /\ vq.pc = "verifyMessage"
  /\ AddrToLowerCase(vq.walletAddress) = AddrToLowerCase(config.ownerAddress)
  /\ vq.signature = Signature("owner", ReturnedWith(vq.nonce))
  /\ config.deployment = "express" => vq.message = ReturnedWith(vq.nonce)

\* C30: when the owner has signed exactly the message returned with the
\* nonce and the request passed the nonce test, the verification succeeds
\* and stores a session of one hour that privileged requests accept.
C30_HonestOwnerAuthenticates ==
  [][\A a \in Verifies :
       (HonestOwner(areq[a]) /\ areq'[a].pc = "done")
       => /\ areq'[a].status = 200
          /\ areq'[a].sessionToken \in Tokens
          /\ adminSessions'[areq'[a].sessionToken] # None
          /\ adminSessions'[areq'[a].sessionToken].expiresAt = now + SESSION_TTL_MS]_vars

\* ------------------------------------------------ submit: error handling

NotFoundErrors == {"Payment transaction not found",
                   "Payment transaction failed or not confirmed"}

\* request r is answered in this step that its payment is not found or not confirmed
NotFoundAnswer(r) ==
  /\ req[r].pc \in {"getTransaction", "getTransactionReceipt"}
  /\ req'[r].pc = "done" /\ req'[r].res.error \in NotFoundErrors

\* C31: a rejection for a payment that is not found or not yet confirmed is
\* answered 400 without marking the hash and without submitting anything:
\* the used set, the chain, the contract and the table are as before.
C31_NotFoundIsRetryable ==
  [][\A r \in Req :
       NotFoundAnswer(r)
       => /\ req'[r].res.status = 400
          /\ usedPaymentHashes' = usedPaymentHashes
          /\ chain' = chain /\ anchored' = anchored /\ confessions' = confessions]_vars

\* one request was told 'not found' while the payment was pending, and a
\* later request with the same hash has had its transaction broadcast
C31_Witness ==
  \E r, q \in Req :
    /\ r # q
    /\ req[r].pc = "done" /\ req[r].res.error = "Payment transaction not found"
    /\ req[q].body.paymentTxHash = req[r].body.paymentTxHash
    /\ req[q].pc = "waitForTransactionReceipt"
    /\ usedPaymentHashes = {HashToLowerCase(req[q].body.paymentTxHash)}

\* C32: a request refused because its payment hash is already used is
\* answered with the conflict status 409, and no request refused because its
\* payment is not found is answered with that same status.
C32_AlreadyUsedIsConflict ==
  \A r \in Req :
    req[r].pc = "done"
    => /\ req[r].res.error = "This payment has already been used" => req[r].res.status = 409
       /\ req[r].res.error = "Payment transaction not found" => req[r].res.status # 409

\* C33: a request whose relayer transaction was rejected by the contract's
\* 'Already exists' guard, at submission or as a reverted receipt, is answered
\* 409 and not 500, and no confession is persisted for it.
C33_AlreadyAnchoredIsConflict ==
  \A r \in Req :
    (/\ req[r].pc = "done" /\ Broadcast(r)
     /\ chain[req[r].txHash].revertReason = "Already exists")
    => /\ req[r].res.status = 409
       /\ \A i \in DOMAIN confessions : confessions[i].txHash # req[r].txHash

\* ------------------------------------------------------ counters: frame

\* a confession row without its two counters
WithoutCounters(row) == [row EXCEPT !.likes = 0, !.dislikes = 0]

\* vote operation o writes the counters of confession c in this step
CountingStep(o, c) ==
  /\ vreq[o].pc \in {"updateCounts", "bumpCount", "dropCount"}
  /\ vreq'[o].pc = "done"
  /\ vreq[o].confessionId = c

\* C34: the counters of a row change only in the counting step of a vote
\* operation on that row, which leaves the rest of the row and every other
\* row as they were; no step of a vote operation adds a row or changes
\* anything but counters; a new row starts with both counters 0; and a step
\* that changes isHidden of a row changes nothing else in the table.
C34_CountersChangeOnlyByVotes ==
  [][/\ \A c \in DOMAIN confessions :
          /\ (confessions'[c].likes # confessions[c].likes
                \/ confessions'[c].dislikes # confessions[c].dislikes)
             => /\ \E o \in VoteOps : CountingStep(o, c)
                /\ \A d \in DOMAIN confessions : d # c => confessions'[d] = confessions[d]
          /\ confessions'[c].isHidden # confessions[c].isHidden
             => confessions' = [confessions EXCEPT ![c].isHidden = confessions'[c].isHidden]
     /\ \A c \in DOMAIN confessions' :
          c \notin DOMAIN confessions
          => confessions'[c].likes = 0 /\ confessions'[c].dislikes = 0
     /\ vreq' # vreq
        => /\ DOMAIN confessions' = DOMAIN confessions
           /\ \A c \in DOMAIN confessions :
                WithoutCounters(confessions'[c]) = WithoutCounters(confessions[c])]_vars

\* a row that has a like was hidden by the owner and kept its like, beside a
\* second row that nobody voted on
C34_Witness ==
  /\ Len(confessions) = 2
  /\ confessions[1].isHidden /\ confessions[1].likes = 1 /\ confessions[1].dislikes = 0
  /\ confessions[2].likes = 0 /\ confessions[2].dislikes = 0
  /\ \E o \in VoteOps : vreq[o].pc = "done" /\ vreq[o].confessionId = 1 /\ vreq[o].status = 200
  /\ \E r \in StoreReq : req[r].route = "PATCH /api/confessions/:id/visibility"
                          /\ req[r].res.status = 200

\* ------------------------------------------------- order of the submit steps

\* The awaits of POST /api/relayer/submit in the order the handler reaches them.
StepOrder ==
  <<"idle", "readContract", "getTransaction", "getTransactionReceipt", "getBalance",
    "sendTransaction", "waitForTransactionReceipt", "createConfession", "done">>

StepIndex(pc) == CHOOSE i \in DOMAIN StepOrder : StepOrder[i] = pc

\* the request hands its transaction to the network in this step
Broadcasts(r) == req[r].pc = "sendTransaction" /\ req'[r].pc = "waitForTransactionReceipt"

\* C35: at the step in which a request submits the relayer's transaction its
\* payment hash is in the used-payment set, and every step of a request leads
\* to the next step of the handler or to its answer, never on after a failure.
C35_MarkPrecedesBroadcast ==
  [][\A r \in Req :
       /\ Broadcasts(r) => UsedKey(r) \in usedPaymentHashes
       /\ (req[r].pc \notin {"idle", "done"} /\ req'[r].pc # req[r].pc)
          => \/ req'[r].pc = StepOrder[StepIndex(req[r].pc) + 1]
             \/ req'[r].pc = "done" /\ req'[r].res.status # 200]_vars

\* ------------------------------------------------- order of the verify checks

\* the signature held by a waiting verify request was made by the address it
\* claims, over the message it sent
SignedByClaimedAddress(vq) ==
  vq.signature = Signature(vq.walletAddress.id, vq.message)

\* C36: a verify request reaches the signature check only with a stored,
\* unexpired nonce that its message contains; it is refused 403 only after its
\* signature verified; and a request whose signature does not verify is
\* answered 401, whatever address it claims.
C36_SignatureBeforeOwner ==
  [][\A a \in Verifies :
       /\ (VerifyArrives(a) /\ areq'[a].pc = "verifyMessage")
          => LET nonceData == adminNonces[NonceKey(areq'[a].walletAddress)]
             IN /\ nonceData # None /\ ~(nonceData.expiresAt < now)
                /\ areq'[a].message.nonce = nonceData.nonce
       /\ (VerifyArrives(a) /\ areq'[a].pc = "done") => areq'[a].status \in {400, 401}
       /\ (areq[a].pc = "verifyMessage" /\ areq'[a].pc = "done")
          => /\ areq'[a].status = 403 => SignedByClaimedAddress(areq[a])
             /\ ~SignedByClaimedAddress(areq[a]) => areq'[a].status = 401]_vars

\* ------------------------------------------------- the mark without a broadcast

\* the request ends in this step, after marking its hash, having sent nothing
EndsUnsent(r) ==
  /\ req[r].pc \in {"getBalance", "sendTransaction"}
  /\ req'[r].pc = "done" /\ req'[r].txHash = 0

\* C37: a request that ends after the mark without having broadcast the
\* relayer's transaction (balance too low, balance read thrown, sendTransaction
\* failed) leaves its payment hash out of the used-payment set.
C37_UnsentMarkRolledBack ==
  [][\A r \in Req : EndsUnsent(r) => UsedKey(r) \notin usedPaymentHashes']_vars

\* ------------------------------------------------- GET /api/confessions

\* a listing request: ?includeHidden=true or not, and its two headers
ListingReq(includeHidden, sessionToken, visitorId) ==
  [DirectReq("GET /api/confessions") EXCEPT
     !.body = [includeHidden |-> includeHidden, xAdminSession |-> sessionToken,
               xVisitorId |-> visitorId]]

\* session && session.expiresAt > Date.now()
sessionLive(session, t) == session # None /\ session.expiresAt > t

\* orderBy(desc(confessions.timestamp)): the orders the database may return
\* the rows in, rows of equal timestamp in either order
orderByDescTimestamp(table) ==
  {s \in [DOMAIN table -> DOMAIN table] :
     /\ \A i, j \in DOMAIN table : i # j => s[i] # s[j]
     /\ \A i, j \in DOMAIN table : i < j => table[s[i]].timestamp >= table[s[j]].timestamp}

\* vote?.voteType || null
userVote(c, v) ==
  IF VotesOf(c, v) = {} THEN "null" ELSE votes[CHOOSE i \in VotesOf(c, v) : TRUE].voteType

\* confessions.filter(c => !c.isHidden), unless includeHidden
filterHidden(rows, includeHidden) ==
  SelectSeq(rows, LAMBDA row : includeHidden \/ ~row.isHidden)

\* routes.ts, GET /api/confessions, up to the await of storage.getConfessions
GetConfessionsBegin(r, includeHidden, sessionToken, visitorId) ==
  /\ config.deployment = "express"
  /\ req[r].pc = "idle"
  /\ adminSessions' = cleanupExpired(adminSessions, now)
  /\ adminNonces' = cleanupExpired(adminNonces, now)
  /\ req' = [req EXCEPT ![r] =
       [ListingReq(includeHidden, sessionToken, visitorId) EXCEPT !.pc = "getConfessions"]]
  /\ UNCHANGED <<now, confessions, storeVars, areq, returned, minted>>

\* routes.ts, GET /api/confessions, from the rows on: the session is looked up
\* at the instant the rows arrive, the rows are filtered and each is given the
\* visitor's vote; a failed read answers 500.
GetConfessionsEnd(r, dbOk, order) ==
  /\ req[r].pc = "getConfessions"
  /\ order \in orderByDescTimestamp(confessions)
  /\ LET rq == req[r]
         sessionToken == rq.body.xAdminSession
         session == IF sessionToken = 0 THEN None ELSE adminSessions[sessionToken]
         includeHidden == rq.body.includeHidden /\ sessionToken # 0 /\ sessionLive(session, now)
         rows == [i \in DOMAIN confessions |-> confessions[order[i]]]
         filteredConfessions == filterHidden(rows, includeHidden)
         confessionsWithVotes ==
           [i \in DOMAIN filteredConfessions |->
              [id |-> filteredConfessions[i].id, isHidden |-> filteredConfessions[i].isHidden,
               userVote |-> userVote(filteredConfessions[i].id, rq.body.xVisitorId)]]
     IN req' = [req EXCEPT ![r] =
          IF ~dbOk THEN Reply(rq, 500, "Failed to fetch confessions")
          ELSE [Reply(rq, 200, "") EXCEPT !.res.listing = confessionsWithVotes]]
  /\ UNCHANGED <<now, confessions, storeVars, adminVars>>

\* The two users of a session side by side on the Express server: the owner
\* holds the session issued at instant 0, the table holds the paid confession;
\* slot 1 lists, slot 2 changes visibility, one visitor votes, the clock moves
\* across the session's expiry.
InitListing ==
  /\ TablesAfterSubmit
  /\ config = [relayerKey |-> TRUE, contractAddress |-> TRUE, ownerAddress |-> OwnerAddress,
               deployment |-> "express"]
  /\ InitVotes /\ InitSessionHeld

ListingOps == {1}

NextListing ==
  \/ \E r \in LiveReq, inc \in BOOLEAN, t \in {0} \cup Tokens :
       GetConfessionsBegin(r, inc, t, "v1")
  \/ \E r \in LiveReq, ok \in BOOLEAN, order \in orderByDescTimestamp(confessions) :
       GetConfessionsEnd(r, ok, order)
  \/ \E r \in StoreReq, id \in 1..MaxRows, body \in VisibilityBodies, t \in {0} \cup Tokens :
       PatchVisibility(r, id, body, t)
  \/ \E r \in Req : Recycle(r)
  \/ \E o \in ListingOps, c \in 1..MaxRows, t \in VoteTypes : BeginVote(o, c, "v1", t)
  \/ \E o \in ListingOps, pick \in 0..MaxVotes : GetVote(o, pick)
  \/ \E o \in ListingOps : InsertVote(o)
  \/ \E o \in ListingOps : BumpCount(o)
  \/ \E t \in AdminInstants : Tick(t)

SpecListing == InitListing /\ [][NextListing]_vars

\* the ids of the rows a listing shows
Listed(res) == {res.listing[i].id : i \in DOMAIN res.listing}

\* PATCH /api/confessions/:id/visibility would let this token through now
PatchAccepts(sessionToken) ==
  /\ sessionToken # 0
  /\ ~sessionInvalid(cleanupExpired(adminSessions, now)[sessionToken], now)

\* C38: a listing answered at some instant for ?includeHidden=true shows the
\* hidden confessions exactly when a visibility request with the same token
\* would be accepted at that instant, the instant of expiresAt included; a
\* listing without such a token shows no hidden confession.
C38_SessionChecksAgree ==
  [][\A r \in Req :
       (req[r].pc = "getConfessions" /\ req'[r].pc = "done" /\ req'[r].res.status = 200)
       => LET token == req[r].body.xAdminSession
              hidden == {c \in DOMAIN confessions : confessions[c].isHidden}
              shown == Listed(req'[r].res)
          IN /\ (req[r].body.includeHidden /\ PatchAccepts(token)) => hidden \subseteq shown
             /\ ~(req[r].body.includeHidden /\ PatchAccepts(token)) => hidden \cap shown = {}
             /\ DOMAIN confessions \ hidden \subseteq shown]_vars

\* ------------------------------------------------- the lazy sweeps

\* Every handler of the Express server that sweeps before it looks up: the
\* submission of a second address (the first address has its record from the
\* paid confession), the owner's nonce and verify requests, the listing and
\* the visibility change, one request at a time in slot 2, with a clock that
\* shows the instants around the expiries.
InitSweeps ==
  /\ TablesAfterSubmit
  /\ config = [relayerKey |-> TRUE, contractAddress |-> TRUE, ownerAddress |-> OwnerAddress,
               deployment |-> "express"]
  /\ InitVotes /\ InitAdmin

\* a submission the schema turns away once the rate limiter has counted it
BogusBody == [GoodBody EXCEPT !.category = "Bogus"]

NextSweeps ==
  \/ \E r \in StoreReq : Begin(r, "ip2", BogusBody)
  \/ Nonce(OwnerAddress)
  \/ \E a \in OneVerify, m \in ClientMessages :
       VerifyBegin(a, OwnerAddress, m, Signature("owner", m))
  \/ \E a \in OneVerify : VerifyEnd(a)
  \/ \E r \in StoreReq, t \in {0} \cup Tokens : GetConfessionsBegin(r, TRUE, t, "v1")
  \/ \E r \in StoreReq, order \in orderByDescTimestamp(confessions) :
       GetConfessionsEnd(r, TRUE, order)
  \/ \E r \in StoreReq, t \in {0} \cup Tokens :
       PatchVisibility(r, 1, [isHidden |-> TRUE, typeof |-> "boolean"], t)
  \/ \E r \in StoreReq : Recycle(r)
  \/ \E t \in AdminInstants : Tick(t)

SpecSweeps == InitSweeps /\ [][NextSweeps]_vars

\* a request for this route arrives in slot r in this step
ArrivesFor(r, route) == Arrives(r) /\ req'[r].route = route

\* checkRateLimit on the map as it is, not swept, would start a new record
WouldReplace(k) ==
  checkRateLimit(submissionRateLimit, k, now).map[k] = [count |-> 1, resetAt |-> now + HOUR_MS]

\* C39: the sweeps change no outcome. A submission is allowed or refused,
\* and leaves the record of its address, as checkRateLimit alone would on
\* the unswept map, and the records the sweep takes are ones checkRateLimit
\* would replace at that instant; a nonce or session that disappears in a step
\* other than the one consuming it is one that the lookups reject at that
\* instant, and verify and visibility requests are answered as the lookup on
\* the unswept Maps would answer them.
C39_SweepsArePureHousekeeping ==
  [][/\ \A r \in Req :
          ArrivesFor(r, "POST /api/relayer/submit")
          => LET ip == req'[r].ip
                 alone == checkRateLimit(submissionRateLimit, ip, now)
             IN /\ (req'[r].res.status = 429) <=> ~alone.ok
                /\ submissionRateLimit'[ip] = alone.map[ip]
                /\ \A k \in IPs \ {ip} :
                     submissionRateLimit'[k] # submissionRateLimit[k]
                     => submissionRateLimit'[k] = NoRecord /\ WouldReplace(k)
     /\ \A w \in Wallets :
          (adminNonces[w] # None /\ adminNonces'[w] = None /\ minted' = minted)
          => adminNonces[w].expiresAt < now
     /\ \A t \in Tokens :
          (adminSessions[t] # None /\ adminSessions'[t] = None)
          => adminSessions[t].expiresAt < now /\ ~(adminSessions[t].expiresAt > now)
     /\ \A a \in Verifies :
          VerifyArrives(a)
          => LET nonceData == adminNonces[NonceKey(areq'[a].walletAddress)]
             IN (areq'[a].error = "Nonce expired or invalid")
                <=> (nonceData = None \/ nonceData.expiresAt < now)
     /\ \A r \in Req :
          ArrivesFor(r, "PATCH /api/confessions/:id/visibility")
          => LET token == req'[r].body.xAdminSession
                 session == IF token = 0 THEN None ELSE adminSessions[token]
             IN (req'[r].res.status = 401)
                <=> (token = 0 \/ session = None \/ session.expiresAt < now)]_vars

\* an address is let through with a fresh record after its hour has passed,
\* the other address's expired record is swept, and a verify request has
\* been refused for a nonce that was swept
C39_Witness ==
  /\ submissionRateLimit["ip1"] = NoRecord
  /\ submissionRateLimit["ip2"] = [count |-> 1, resetAt |-> 2 * HOUR_MS + 1]
  /\ \E a \in Verifies : areq[a].error = "Nonce expired or invalid" /\ areq[a].message # NoMessage
  /\ adminNonces["owner"] = None /\ returned # <<>>

\* ------------------------------------------------- no owner configured

\* Neither ADMIN_WALLET_ADDRESS nor CONTRACT_OWNER_ADDRESS is set: ownerAddress
\* is undefined; everything else as in InitAdministration.
InitUnowned ==
  /\ TablesAfterSubmit
  /\ config \in [relayerKey : {TRUE}, contractAddress : {TRUE}, ownerAddress : {NoAddr},
                 deployment : {"express", "vercel"}]
  /\ InitVotes /\ InitAdmin

SpecUnowned == InitUnowned /\ [][NextSession]_vars

\* C40: with no owner address configured no verify request is answered with
\* a session token, no session is stored, and no visibility request is let
\* through.
C40_NoOwnerNoSession ==
  config.ownerAddress = NoAddr
  => /\ minted = 0
     /\ \A t \in Tokens : adminSessions[t] = None
     /\ \A a \in Verifies : areq[a].status # 200 /\ areq[a].sessionToken = 0
     /\ \A r \in Req : req[r].route = "PATCH /api/confessions/:id/visibility"
                          => req[r].res.status \notin {200, 400, 404}

====
